---- MODULE Spec2Model ----
(***************************************************************************)
(* Verification model of the Quantum_flow trading core:                    *)
(*   - the Risk Gate (risk/risk_manager.py): per-user risk state,          *)
(*     drawdown staging, admission control, position sizing, correlation   *)
(*     gate;                                                               *)
(*   - the Scheduler (core/scheduler.py): task registry and tick;          *)
(*   - the Self-Healing Supervisor (self_healing.py): check/heal cycle.    *)
(*                                                                         *)
(* Numbers.  Python floats are modelled by exact integer/rational          *)
(* arithmetic: equities, balances and prices are integers, percentages     *)
(* are compared by cross-multiplication, correlation coefficients are      *)
(* expressed in tenths (0.3 -> 3, 0.7 -> 7), sizes are fractions [n, d].   *)
(*                                                                         *)
(* Each component has its own specification (SpecRisk, SpecGate, SpecSize, *)
(* SpecCorr, SpecSched, SpecHeal); a specification leaves the variables of *)
(* the other components unchanged.                                         *)
(***************************************************************************)
EXTENDS Integers, Sequences, FiniteSets, TLC

VARIABLES
    \* ---- database / environment seen by the Risk Gate
    db_equity,          \* user id -> user.equity
    db_positions,       \* user id -> [symbol -> "none" | "buy" | "sell"]
    now,                \* time.time() as read by the Risk Gate
    \* ---- RiskManager fields
    user_risk_state,    \* self.user_risk_state: partial map user id -> state
    correlation_matrix, \* self.correlation_matrix: partial map key -> coeff
    \* ---- observation of the last Risk Gate operation
    risk_op,
    \* ---- validate_signal: one call's inputs and what it returned
    vs_call, vs_ret,
    \* ---- _calculate_position_size: one call's inputs and result
    size_in, size_out,
    \* ---- _check_correlation_risk: last signal checked and the verdict
    corr_sig, corr_ok,
    \* ---- Scheduler fields and clock
    running,            \* self.running
    tasks,              \* self.tasks: partial map task id -> task record
    sched_now,          \* datetime.now().timestamp() as read by a tick
    dispatched,         \* task ids whose worker the last tick started
    sched_op,           \* the last Scheduler operation
    sched_call,         \* arguments and result of the last registry call
    \* ---- Self-Healing Supervisor
    attempts,           \* strategy name -> strategy["attempts"]
    sup_pc,             \* where the supervisor thread is in its cycle
    sup_cur,            \* position in healing_strategies of the strategy in hand
    sup_read,           \* value of attempts the supervisor thread last read
    man_pc,             \* strategy the operator thread is healing, or "idle"
    alert,              \* what the last step's _send_critical_alert did
    heal_op,            \* the last Supervisor step: [kind, name]
    delay,              \* the backoff delay being slept (seconds), else zero
    streak,             \* strategy name -> failing cycles in a row, or -1
    \* ---- Trading Engine
    eng_running,        \* engine.running
    eng_paused,         \* engine.paused
    health_status,      \* engine.health_status
    trading_thread,     \* engine.trading_thread: "none" or "alive"
    user_exchange_map,  \* user id -> state of the exchange object bound to it
    active_users_cache, \* engine.active_users_cache (a list of user ids)
    last_user_refresh,  \* engine.last_user_refresh
    eng_now,            \* time.time() as read by the engine
    loop_pc,            \* where a thread running _trading_loop(engine) is
    error_count,        \* the local error_count of _trading_loop
    eng_op,             \* the last engine operation: [op, result, users]
    \* ---- Scheduler threads
    scheduler_thread,   \* the thread running _scheduler_loop: "none", "alive", "exited"
    shutdown_event,     \* self.shutdown_event.is_set()
    tick_pc,            \* where the scheduler thread is in its loop
    tick_now,           \* now = datetime.now() as read by the pass in progress
    tick_todo,          \* items of list(self.tasks.items()) the pass has yet to visit
    tick_cur,           \* id of the task whose worker the pass has just started
    workers,            \* threads running _execute_task, in start order
    \* ---- Supervisor: the engine component
    sh_trading_engine,  \* supervisor.trading_engine: an instance, or 0 for None
    has_trading_engine, \* supervisor.has_trading_engine
    engine_strategy,    \* "trading_engine" in supervisor.healing_strategies
    app_trading_engine, \* supervisor.app.trading_engine, or -1 without an app
    installed,          \* the engine instance installed last
    instances,          \* how many engine instances have been created
    swap_op,            \* the last step: [op, examined, result]
    \* ---- Trading Engine: the loop's backoff and the shutdown signal
    backoff_time,       \* the backoff_time _trading_loop is sleeping, else 0
    eng_shutdown,       \* engine.shutdown_event.is_set()
    \* ---- Trading Engine: one signal on its way through _process_signal
    sig_pc,             \* the step _process_signal is about to take, or "idle"
    sig_cur,            \* the signal in hand, 0 for none
    accepted,           \* signals the Risk Gate has returned
    executed,           \* signals the exchange has executed
    recorded,           \* signals whose trade has been recorded
    notified,           \* signals whose notification has been enqueued
    sig_op,             \* the last step: [op, signal, result]
    \* ---- Scheduler: a calendar task under the ticks of _scheduler_loop
    cal_now,            \* the wall clock, in ticks of 1/TicksPerSecond s since midnight
    cal_task,           \* the daily, weekly or monthly entry of self.tasks
    cal_running,        \* scheduler.running
    started_at,         \* the clock when start() was called, NotStarted before
    wake_at,            \* the clock when the loop's time.sleep(1) ends
    fired,              \* the task was dispatched within its configured minute
    cal_op,             \* the last step of this part of the model
    \* ---- Scheduler: callers of start() and stop() and the loop threads they spawn
    st_running,         \* scheduler.running as start(), stop() and the loops read it
    st_thread,          \* scheduler.scheduler_thread: the index of the last thread, 0 for None
    caller_pc,          \* per caller: the statement of start() or stop() it is at
    loops,              \* the loop threads spawned so far: [state, iterating]
    st_op,              \* the last step of this part of the model
    \* ---- Risk Gate: one user's risk-state entry under an update and a reader
    rs_entry,           \* self.user_risk_state[user_id]
    upd_pc,             \* the statement of _update_user_risk_state the worker is at
    upd_local,          \* the worker's locals: user.equity and the open positions it read
    observed,           \* the entry as validate_signal read it: [seen, rs, allowed]
    sweep_op,           \* the last step of this part of the model
    \* ---- Trading Engine: the time since the loop worker last iterated
    activity_age,       \* seconds since the trading loop last recorded activity
    \* ---- Supervisor: the system_health strategy and the tasks it pauses
    resources_ok,       \* what _check_system_health finds: CPU, memory and disk within 90%
    app_scheduler,      \* hasattr(self.app, 'scheduler')
    shed_attempts,      \* healing_strategies['system_health']['attempts']
    shed,               \* the tasks that a heal of system_health has paused
    shed_op,            \* the last step of this part of the model
    \* ---- Trading Engine: the loop workers across stop() and start()
    re_running,         \* self.running
    re_thread,          \* self.trading_thread: 0 (None) or the index of the worker it refers to
    re_workers,         \* the threads that run _trading_loop: [pc, born]
    re_stops,           \* how many stop() calls have cleared self.running
    re_op               \* the last step of this part of the model

riskVars == <<db_equity, db_positions, now, user_risk_state, correlation_matrix, risk_op>>
gateVars == <<vs_call, vs_ret>>
sizeVars == <<size_in, size_out>>
corrVars == <<corr_sig, corr_ok>>
schedVars == <<running, tasks, sched_now, dispatched, sched_op, sched_call>>
healVars == <<attempts, sup_pc, sup_cur, sup_read, man_pc, alert, heal_op, delay, streak>>
engVars == <<eng_running, eng_paused, health_status, trading_thread, user_exchange_map,
             active_users_cache, last_user_refresh, eng_now, loop_pc, error_count, eng_op>>
dispVars == <<scheduler_thread, shutdown_event, tick_pc, tick_now, tick_todo, tick_cur, workers>>
swapVars == <<sh_trading_engine, has_trading_engine, engine_strategy, app_trading_engine,
              installed, instances, swap_op>>
loopVars == <<backoff_time, eng_shutdown>>
sigVars == <<sig_pc, sig_cur, accepted, executed, recorded, notified, sig_op>>
calVars == <<cal_now, cal_task, cal_running, started_at, wake_at, fired, cal_op>>
startVars == <<st_running, st_thread, caller_pc, loops, st_op>>
sweepVars == <<rs_entry, upd_pc, upd_local, observed, sweep_op>>
stallVars == <<activity_age>>
shedVars == <<resources_ok, app_scheduler, shed_attempts, shed, shed_op>>
restartVars == <<re_running, re_thread, re_workers, re_stops, re_op>>
vars ==
    <<riskVars, gateVars, sizeVars, corrVars, schedVars, healVars, engVars, dispVars,
      swapVars, loopVars, sigVars, calVars, startVars, sweepVars, stallVars, shedVars,
      restartVars>>
nonRisk ==
    <<gateVars, sizeVars, corrVars, schedVars, healVars, engVars, dispVars, swapVars,
      loopVars, sigVars, calVars, startVars, sweepVars, stallVars, shedVars,
      restartVars>>
nonSize ==
    <<riskVars, gateVars, corrVars, schedVars, healVars, engVars, dispVars, swapVars,
      loopVars, sigVars, calVars, startVars, sweepVars, stallVars, shedVars,
      restartVars>>
nonSched ==
    <<riskVars, gateVars, sizeVars, corrVars, healVars, engVars, dispVars, swapVars,
      loopVars, sigVars, calVars, startVars, sweepVars, stallVars, shedVars,
      restartVars>>
nonHeal ==
    <<riskVars, gateVars, sizeVars, corrVars, schedVars, engVars, dispVars, swapVars,
      loopVars, sigVars, calVars, startVars, sweepVars, stallVars, shedVars,
      restartVars>>
nonEng ==
    <<riskVars, gateVars, sizeVars, corrVars, schedVars, healVars, dispVars, swapVars,
      loopVars, sigVars, calVars, startVars, sweepVars, stallVars, shedVars,
      restartVars>>
nonDisp ==
    <<riskVars, gateVars, sizeVars, corrVars, healVars, engVars, swapVars, loopVars,
      sigVars, calVars, startVars, sweepVars, stallVars, shedVars, restartVars>>
nonSwap ==
    <<riskVars, gateVars, sizeVars, corrVars, schedVars, healVars, engVars, dispVars,
      loopVars, sigVars, calVars, startVars, sweepVars, stallVars, shedVars,
      restartVars>>
nonLoop ==
    <<riskVars, gateVars, sizeVars, corrVars, schedVars, healVars, dispVars, swapVars,
      sigVars, calVars, startVars, sweepVars, stallVars, shedVars, restartVars>>
nonSig ==
    <<riskVars, gateVars, sizeVars, corrVars, schedVars, healVars, engVars, dispVars,
      swapVars, loopVars, calVars, startVars, sweepVars, stallVars, shedVars,
      restartVars>>
nonCal ==
    <<riskVars, gateVars, sizeVars, corrVars, schedVars, healVars, engVars, dispVars,
      swapVars, loopVars, sigVars, startVars, sweepVars, stallVars, shedVars,
      restartVars>>
nonStart ==
    <<riskVars, gateVars, sizeVars, corrVars, schedVars, healVars, engVars, dispVars,
      swapVars, loopVars, sigVars, calVars, sweepVars, stallVars, shedVars,
      restartVars>>
nonSweep ==
    <<riskVars, gateVars, sizeVars, corrVars, schedVars, healVars, engVars, dispVars,
      swapVars, loopVars, sigVars, calVars, startVars, stallVars, shedVars,
      restartVars>>
nonStall ==
    <<riskVars, gateVars, sizeVars, corrVars, schedVars, healVars, engVars, dispVars,
      swapVars, loopVars, sigVars, calVars, startVars, sweepVars, shedVars,
      restartVars>>
nonShed ==
    <<riskVars, gateVars, sizeVars, corrVars, healVars, engVars, dispVars, swapVars,
      loopVars, sigVars, calVars, startVars, sweepVars, stallVars, restartVars>>
nonRestart ==
    <<riskVars, gateVars, sizeVars, corrVars, schedVars, healVars, engVars, dispVars,
      swapVars, loopVars, sigVars, calVars, startVars, sweepVars, stallVars, shedVars>>

(***************************************************************************)
(* Generic helpers                                                         *)
(***************************************************************************)
Max(a, b) == IF a >= b THEN a ELSE b
Abs(a) == IF a >= 0 THEN a ELSE 0 - a

RECURSIVE GCD(_, _)
GCD(a, b) == IF b = 0 THEN a ELSE GCD(b, a % b)

RECURSIVE Pow10(_)
Pow10(p) == IF p = 0 THEN 1 ELSE 10 * Pow10(p - 1)

\* A non-negative rational n/d, d > 0, in lowest terms.
Frac(n, d) == LET g == GCD(n, d) IN [n |-> n \div g, d |-> d \div g]
FracLe(f, g) == f.n * g.d <= g.n * f.d
FracMin(f, g) == IF FracLe(f, g) THEN f ELSE g

\* f * 10^p, cancelling tens against the denominator first (keeps the
\* intermediate products inside the model checker's integers).
RECURSIVE FracScale10(_, _)
FracScale10(f, p) ==
    IF p = 0 THEN Frac(f.n, f.d)
    ELSE IF f.d % 10 = 0 THEN FracScale10([n |-> f.n, d |-> f.d \div 10], p - 1)
    ELSE FracScale10(Frac(f.n * 10, f.d), p - 1)

(***************************************************************************)
(* Risk Gate: configuration (RiskManager.__init__)                         *)
(***************************************************************************)
Users == {1}
Symbols == {"BTC/USDT", "ETH/USDT", "XRP/USDT", "ADA/USDT"}
\* Order in which the position repository returns a user's open positions.
SymbolOrder == <<"BTC/USDT", "ETH/USDT", "XRP/USDT", "ADA/USDT">>
Sides == {"buy", "sell"}

stage1_threshold == 5
stage2_threshold == 10
stage3_threshold == 15
stage4_threshold == 20
max_position_size_percent == 5
\* risk.max_open_positions as configured for the model (default 10).
max_open_positions == 3

StaleAfter == 60
DefaultCorrelation == 3
HighCorrelation == 7
MaxAllocation == 80
MaxHighCorrelations == 2

\* Entry price and quantity of every open position of the model's database.
PosEntryPrice == 10
PosQuantity == 1

\* Risk Gate clock: the epoch second the model starts at, the step of the
\* clock and the last second modelled.
RiskNow0 == 1000
RiskClockStep == 40
RiskMaxNow == 1120

EquityValues == {0, 80, 85, 90, 95, 100}

NoPositions == [s \in Symbols |-> "none"]
OpenSymbols(pos) == {s \in Symbols : pos[s] # "none"}

(***************************************************************************)
(* Risk Gate: _update_position_correlation                                 *)
(***************************************************************************)
\* The symbols of `open`, in repository order.
SymbolList(open) == SelectSeq(SymbolOrder, LAMBDA s : s \in open)

\* for i, symbol1 / for j, symbol2 with i < j: key = f"{symbol1}_{symbol2}"
KeysOf(symbols) ==
    UNION {{<<symbols[i], symbols[j]>> : j \in (i+1)..Len(symbols)} : i \in 1..Len(symbols)}

\* The matrix after the call: a missing key gets the default 0.3.
update_matrix(matrix, symbols) ==
    [k \in DOMAIN matrix \cup KeysOf(symbols) |->
        IF k \in DOMAIN matrix THEN matrix[k] ELSE DefaultCorrelation]

\* risk_state['position_correlation'] after the call.
update_position_correlation(pc, matrix, symbols) ==
    LET m2 == update_matrix(matrix, symbols)
    IN [k \in DOMAIN pc \cup KeysOf(symbols) |->
           IF k \in KeysOf(symbols) THEN m2[k] ELSE pc[k]]

(***************************************************************************)
(* Risk Gate: _get_user_risk_state / _update_user_risk_state               *)
(***************************************************************************)
EmptyMap == [k \in {} |-> 0]

InitialRiskState ==
    [drawdown_stage |-> 0, max_equity |-> 0, current_equity |-> 0,
     open_positions |-> EmptyMap, position_correlation |-> EmptyMap,
     last_updated |-> 0]

\* StageOf with exclusive thresholds (a drawdown of exactly 5% stays at stage 0).
StageOf_strict(peak, cur) ==
    LET d100 == (peak - cur) * 100
    IN IF d100 > stage4_threshold * peak THEN 4
       ELSE IF d100 > stage3_threshold * peak THEN 3
       ELSE IF d100 > stage2_threshold * peak THEN 2
       ELSE IF d100 > stage1_threshold * peak THEN 1
       ELSE 0

\* if drawdown_percent >= stage4 ... elif >= stage3 ... with
\* drawdown_percent = (max_equity - current_equity) / max_equity * 100.
StageOf(peak, cur) ==
    LET d100 == (peak - cur) * 100
    IN IF d100 >= stage4_threshold * peak THEN 4
       ELSE IF d100 >= stage3_threshold * peak THEN 3
       ELSE IF d100 >= stage2_threshold * peak THEN 2
       ELSE IF d100 >= stage1_threshold * peak THEN 1
       ELSE 0

PositionRecord(side) ==
    [side |-> side, entry_price |-> PosEntryPrice, quantity |-> PosQuantity]

\* The equity part of _update_user_risk_state (lines 348-367).
update_equity(rs, equity) ==
    LET peak == Max(rs.max_equity, equity)
    IN [rs EXCEPT !.current_equity = equity,
                  !.max_equity = peak,
                  !.drawdown_stage = IF peak > 0 THEN StageOf(peak, equity) ELSE @]

\* _update_user_risk_state(user_id).  `fault` is what the database does:
\*   "none"      every lookup succeeds;
\*   "lookup"    the user lookup or the position query raises, or the user is
\*               not found: nothing is changed;
\*   "positions" building the open-position map raises after the equity and
\*               the stage were stored: positions, correlation and timestamp
\*               keep their old values.
\* Returns [rs, matrix].
update_user_risk_state(rs, matrix, equity, positions, t, fault) ==
    IF fault = "lookup" THEN [rs |-> rs, matrix |-> matrix]
    ELSE IF fault = "positions" THEN [rs |-> update_equity(rs, equity), matrix |-> matrix]
    ELSE
      LET r1 == update_equity(rs, equity)
          open == OpenSymbols(positions)
          syms == SymbolList(open)
      IN [rs |-> [r1 EXCEPT
                    !.open_positions = [s \in open |-> PositionRecord(positions[s])],
                    !.position_correlation =
                        update_position_correlation(r1.position_correlation, matrix, syms),
                    !.last_updated = t],
          matrix |-> update_matrix(matrix, syms)]

\* _get_user_risk_state(user_id): lazily create, refresh when older than 60 s.
\* Returns [rs, matrix].
get_user_risk_state(states, matrix, u, equity, positions, t, fault) ==
    LET rs0 == IF u \in DOMAIN states THEN states[u] ELSE InitialRiskState
    IN IF t - rs0.last_updated > StaleAfter
       THEN update_user_risk_state(rs0, matrix, equity, positions, t, fault)
       ELSE [rs |-> rs0, matrix |-> matrix]

Faults == {"none", "lookup", "positions"}

(***************************************************************************)
(* Risk Gate: state machine of the per-user risk state                     *)
(***************************************************************************)
\* The user's equity changes in the database (trading results, deposits).
SetEquity(u, e) ==
    /\ e # db_equity[u]
    /\ db_equity' = [db_equity EXCEPT ![u] = e]
    /\ risk_op' = "set_equity"
    /\ UNCHANGED <<db_positions, now, user_risk_state, correlation_matrix, nonRisk>>

AdvanceTime ==
    /\ now + RiskClockStep <= RiskMaxNow
    /\ now' = now + RiskClockStep
    /\ risk_op' = "advance_time"
    /\ UNCHANGED <<db_equity, db_positions, user_risk_state, correlation_matrix, nonRisk>>

\* get_drawdown_stage(user_id) and every other reader: _get_user_risk_state.
GetUserRiskState(u, fault) ==
    LET r == get_user_risk_state(user_risk_state, correlation_matrix, u,
                                 db_equity[u], db_positions[u], now, fault)
    IN /\ user_risk_state' =
            [v \in DOMAIN user_risk_state \cup {u} |->
                IF v = u THEN r.rs ELSE user_risk_state[v]]
       /\ correlation_matrix' = r.matrix
       /\ risk_op' = IF r.rs = (IF u \in DOMAIN user_risk_state
                                THEN user_risk_state[u] ELSE InitialRiskState)
                     THEN "read" ELSE "update"
       /\ UNCHANGED <<db_equity, db_positions, now, nonRisk>>

(***************************************************************************)
(* Idle values of the variables a specification does not use               *)
(***************************************************************************)
NoSignal ==
    [symbol |-> "none", side |-> "none", price |-> 0,
     quantity |-> [n |-> 0, d |-> 1], stop_loss |-> [n |-> 0, d |-> 1],
     take_profit |-> [n |-> 0, d |-> 1]]
NoReturn == [done |-> FALSE, result |-> "none", reason |-> "idle", signal |-> NoSignal]
GateIdle == vs_call = [user |-> 0] /\ vs_ret = NoReturn
SizeIdle == size_in = "idle" /\ size_out = [done |-> FALSE, units |-> 0, p |-> 0]
CorrIdle == corr_sig = [symbol |-> "none", side |-> "none"] /\ corr_ok = TRUE
RiskIdle ==
    /\ db_equity = [u \in Users |-> 0]
    /\ db_positions = [u \in Users |-> NoPositions]
    /\ now = RiskNow0
    /\ user_risk_state = EmptyMap
    /\ correlation_matrix = EmptyMap
    /\ risk_op = "idle"
SchedIdle ==
    /\ running = FALSE /\ tasks = EmptyMap /\ sched_now = 0
    /\ dispatched = {} /\ sched_op = "idle"
    /\ sched_call = [op |-> "idle"]
HealIdle ==
    /\ attempts = EmptyMap /\ sup_pc = "idle" /\ sup_cur = 0 /\ sup_read = 0
    /\ man_pc = "idle" /\ alert = "none" /\ heal_op = [kind |-> "idle", name |-> "none"]
    /\ delay = [n |-> 0, d |-> 1] /\ streak = EmptyMap
EngIdle ==
    /\ eng_running = FALSE /\ eng_paused = FALSE /\ health_status = "none"
    /\ trading_thread = "none" /\ user_exchange_map = EmptyMap
    /\ active_users_cache = <<>> /\ last_user_refresh = 0 /\ eng_now = 0
    /\ loop_pc = "none" /\ error_count = 0
    /\ eng_op = [op |-> "idle", result |-> "none", users |-> <<>>]
SwapIdle ==
    /\ sh_trading_engine = 0 /\ has_trading_engine = FALSE /\ engine_strategy = FALSE
    /\ app_trading_engine = 0 - 1 /\ installed = 0 /\ instances = 0
    /\ swap_op = [op |-> "idle", examined |-> 0 - 1, result |-> "none"]
LoopIdle == backoff_time = 0 /\ eng_shutdown = FALSE
SigIdle ==
    /\ sig_pc = "idle" /\ sig_cur = 0 /\ accepted = {} /\ executed = {}
    /\ recorded = {} /\ notified = {}
    /\ sig_op = [op |-> "idle", signal |-> 0, result |-> "none"]
CalIdle ==
    /\ cal_now = 0 /\ cal_task = [type |-> "none"] /\ cal_running = FALSE
    /\ started_at = 0 - 1 /\ wake_at = 0 /\ fired = FALSE /\ cal_op = "idle"
StartIdle ==
    /\ st_running = FALSE /\ st_thread = 0 /\ caller_pc = <<>> /\ loops = <<>>
    /\ st_op = "idle"
SweepIdle ==
    /\ rs_entry = [drawdown_stage |-> 0] /\ upd_pc = "none" /\ upd_local = [equity |-> 0]
    /\ observed = [seen |-> FALSE] /\ sweep_op = "idle"
StallIdle == activity_age = 0
ShedIdle ==
    /\ resources_ok = TRUE /\ app_scheduler = FALSE /\ shed_attempts = 0
    /\ shed = {} /\ shed_op = "idle"
RestartIdle ==
    /\ re_running = FALSE /\ re_thread = 0 /\ re_workers = <<>> /\ re_stops = 0
    /\ re_op = "idle"
DispIdle ==
    /\ scheduler_thread = "none" /\ shutdown_event = FALSE /\ tick_pc = "none"
    /\ tick_now = 0 /\ tick_todo = {} /\ tick_cur = "none" /\ workers = <<>>

(***************************************************************************)
(* SpecRisk: the per-user risk state under changing equity                 *)
(***************************************************************************)
TwoPositions ==
    [s \in Symbols |-> IF s = "BTC/USDT" THEN "buy"
                       ELSE IF s = "ETH/USDT" THEN "sell" ELSE "none"]

InitRisk ==
    /\ db_equity \in [Users -> EquityValues]
    /\ db_positions \in [Users -> {NoPositions, TwoPositions}]
    /\ now = RiskNow0
    /\ user_risk_state = EmptyMap
    /\ correlation_matrix = EmptyMap
    /\ risk_op = "init"
    /\ GateIdle /\ SizeIdle /\ CorrIdle /\ SchedIdle /\ HealIdle /\ EngIdle /\ DispIdle
    /\ SwapIdle /\ LoopIdle /\ SigIdle /\ CalIdle
    /\ StartIdle
    /\ SweepIdle
    /\ StallIdle
    /\ ShedIdle
    /\ RestartIdle

NextRisk ==
    \/ \E u \in Users, e \in EquityValues : SetEquity(u, e)
    \/ AdvanceTime
    \/ \E u \in Users, f \in Faults : GetUserRiskState(u, f)

SpecRisk == InitRisk /\ [][NextRisk]_vars

\* C4 (reference): the step function of the claim, written from its text:
\* the stage is the number of thresholds 5, 10, 15, 20 that
\* d = (peak - current) / peak * 100 has reached.
C4_Step(peak, cur) ==
    Cardinality({t \in {5, 10, 15, 20} : (peak - cur) * 100 >= t * peak})

\* C4: after every risk-state update the stored drawdown_stage is the step
\* function of the stored (max_equity, current_equity) alone, whatever the
\* sequence of earlier updates (with no positive peak yet it is 0), and the
\* step function is non-decreasing in the drawdown d.
C4_StageIsStepFunction ==
    /\ \A u \in DOMAIN user_risk_state :
          LET rs == user_risk_state[u]
          IN /\ rs.max_equity > 0 =>
                    rs.drawdown_stage = C4_Step(rs.max_equity, rs.current_equity)
             /\ rs.max_equity = 0 => rs.drawdown_stage = 0
    /\ risk_op = "init" =>
        \A p1 \in EquityValues \ {0}, p2 \in EquityValues \ {0} :
          \A c1 \in EquityValues, c2 \in EquityValues :
             (c1 <= p1 /\ c2 <= p2 /\ (p1 - c1) * p2 <= (p2 - c2) * p1)
                => StageOf(p1, c1) <= StageOf(p2, c2)

\* C4 witness: an update stored a drawdown of exactly 10% (stage 2) after
\* the peak had been reached earlier.
C4_Witness ==
    \E u \in DOMAIN user_risk_state :
        /\ risk_op = "update"
        /\ user_risk_state[u].max_equity = 100
        /\ user_risk_state[u].current_equity = 90
        /\ user_risk_state[u].drawdown_stage = 2
        /\ db_equity[u] = 90

(***************************************************************************)
(* Risk Gate: _calculate_position_size / _round_position_size              *)
(***************************************************************************)
\* Python's round(x, p): to the nearest multiple of 10^-p, a tie to the even
\* one.  The result is the integer number of 10^-p units.
round_half_even(f, p) ==
    LET g == FracScale10(f, p)
        q == g.n \div g.d
        r == g.n % g.d
    IN IF 2 * r > g.d THEN q + 1
       ELSE IF 2 * r < g.d THEN q
       ELSE IF q % 2 = 0 THEN q ELSE q + 1

\* 'BTC' in symbol -> 6 decimals, 'ETH' in symbol -> 5, otherwise 2.
ContainsBTC(symbol) == symbol \in {"BTC/USDT", "ETH/BTC"}
ContainsETH(symbol) == symbol \in {"ETH/USDT", "ETH/BTC"}
Precision(symbol) ==
    IF ContainsBTC(symbol) THEN 6 ELSE IF ContainsETH(symbol) THEN 5 ELSE 2

\* _round_position_size: [units, p] stands for units * 10^-p.
round_position_size(f, symbol) ==
    [units |-> round_half_even(f, Precision(symbol)), p |-> Precision(symbol)]

ZeroSize(symbol) == [units |-> 0, p |-> Precision(symbol)]

\* risk_percent without the reduction of stage 1.
risk_percent_x100_late(risk_level, stage) ==
    LET base == IF risk_level = "low" THEN 100
                ELSE IF risk_level = "medium" THEN 200
                ELSE IF risk_level = "high" THEN 300
                ELSE 200
    IN IF stage >= 2 THEN (base * 50) \div 100 ELSE base

\* risk_percent in hundredths of a percent: base by risk level (1.0, 2.0,
\* 3.0, anything else 2.0), times 0.75 at stage 1, times 0.5 at stage >= 2.
risk_percent_x100(risk_level, stage) ==
    LET base == IF risk_level = "low" THEN 100
                ELSE IF risk_level = "medium" THEN 200
                ELSE IF risk_level = "high" THEN 300
                ELSE 200
    IN IF stage = 1 THEN (base * 75) \div 100
       ELSE IF stage >= 2 THEN (base * 50) \div 100
       ELSE base

\* _calculate_position_size(user, signal, risk_state).  A price or stop_loss
\* of 0 stands for None.  user.balance <= 0 takes the exchange-balance branch,
\* which reads the attribute self.exchange that RiskManager never sets: the
\* AttributeError is caught and 0 is returned, as for every other exception
\* (a missing price in the default branch).
calculate_position_size(balance, risk_level, stage, symbol, price, stop_loss) ==
    IF balance <= 0 THEN ZeroSize(symbol)
    ELSE IF price = 0 THEN ZeroSize(symbol)
    ELSE
      LET rp == risk_percent_x100(risk_level, stage)
          \* max_position_size = balance * (max_position_size_percent / 100)
          max_position_size == Frac(balance * max_position_size_percent, 100)
          diff == Abs(price - stop_loss)
          position_size ==
              IF stop_loss # 0
              THEN IF diff > 0
                   \* risk_amount / price_diff_percent
                   THEN Frac(balance * rp * price, 1000000 * diff)
                   \* max_position_size * 0.5
                   ELSE Frac(max_position_size.n, 2 * max_position_size.d)
              \* balance * (risk_percent / 100) / signal.price
              ELSE Frac(balance * rp, 10000 * price)
          cap == Frac(max_position_size.n, max_position_size.d * price)
      IN round_position_size(FracMin(position_size, cap), symbol)

(***************************************************************************)
(* SpecSize: _calculate_position_size applied to bounded inputs            *)
(***************************************************************************)
SizeBalances == {0, 100, 1000, 10000}
SizeLevels == {"low", "medium", "high"}
SizeSymbols == {"BTC/USDT", "ETH/USDT", "XRP/USDT"}
\* (price, stop_loss) pairs; stop_loss 0 is "no stop-loss".
SizePrices == {<<100, 0>>, <<100, 98>>, <<100, 99>>, <<100, 100>>, <<100, 102>>,
               <<3, 0>>, <<3, 2>>, <<3, 3>>, <<7, 0>>, <<7, 6>>, <<1, 1>>}

InitSize ==
    /\ size_in \in [balance : SizeBalances, risk_level : SizeLevels, stage : 0..4,
                    symbol : SizeSymbols, ps : SizePrices]
    /\ size_out = [done |-> FALSE, units |-> 0, p |-> 0]
    /\ RiskIdle /\ GateIdle /\ CorrIdle /\ SchedIdle /\ HealIdle /\ EngIdle /\ DispIdle
    /\ SwapIdle /\ LoopIdle /\ SigIdle /\ CalIdle
    /\ StartIdle
    /\ SweepIdle
    /\ StallIdle
    /\ ShedIdle
    /\ RestartIdle

CalculatePositionSize ==
    /\ ~size_out.done
    /\ LET r == calculate_position_size(size_in.balance, size_in.risk_level,
                        size_in.stage, size_in.symbol, size_in.ps[1], size_in.ps[2])
       IN size_out' = [done |-> TRUE, units |-> r.units, p |-> r.p]
    /\ UNCHANGED <<size_in, nonSize>>

NextSize == CalculatePositionSize

SpecSize == InitSize /\ [][NextSize]_vars

\* The cap of the claim, balance * max_position_size_percent / 100 / price,
\* in units of 10^-p.
C5_Cap(balance, price, p) ==
    FracScale10(Frac(balance * max_position_size_percent, 100 * price), p)

\* C5: for every balance, price > 0, risk level, stage and optional stop-loss
\* the rounded size returned by _calculate_position_size is >= 0 and
\* <= balance * max_position_size_percent / 100 / price.
C5_SizeWithinCap ==
    size_out.done =>
        LET cap == C5_Cap(size_in.balance, size_in.ps[1], size_out.p)
        IN /\ size_out.units >= 0
           /\ size_out.units * cap.d <= cap.n

\* C25 (reference): the sizing rule of the claim, written from its text.
\* Risk percent: base 1, 2, 3 by level, times 1, 0.75, 0.5 by stage.
C25_RiskPercent(level, stage) ==
    LET base == IF level = "low" THEN 1 ELSE IF level = "medium" THEN 2 ELSE 3
    IN  IF stage = 0 THEN Frac(base, 1)
        ELSE IF stage = 1 THEN Frac(base * 3, 4)
        ELSE Frac(base, 2)
\* (balance * risk%) / (percentage distance between entry and stop), for a
\* stop that differs from the entry.
C25_ByStop(balance, rp, entry, stop) ==
    Frac(balance * rp.n * entry, rp.d * 100 * 100 * Abs(entry - stop))
\* (balance * risk%) / price
C25_ByPrice(balance, rp, price) == Frac(balance * rp.n, rp.d * 100 * price)
\* The maximum-percent-of-balance cap, in units of the instrument.
C25_MaxUnits(balance, price) == Frac(balance * max_position_size_percent, 100 * price)
\* units * 10^-p is the multiple of 10^-p nearest to f, the even one at a tie.
C25_Rounds(units, p, f) ==
    LET g == FracScale10(f, p)
        off == Abs(units * g.d - g.n)
    IN  /\ 2 * off <= g.d
        /\ 2 * off = g.d => units % 2 = 0

is_trading_allowed_no_halt(user_paused, rs) ==
    IF user_paused THEN FALSE
    ELSE IF rs.drawdown_stage = 2
         THEN ("side" \in DOMAIN rs) /\ rs["side"] = "sell"
    ELSE Cardinality(DOMAIN rs.open_positions) < max_open_positions

\* _is_trading_allowed(user, risk_state).  At stage 2 the code looks for a
\* key 'side' in the risk-state dict; at stage 3 it does nothing ("checked
\* later in signal validation") and falls through to the position count.
is_trading_allowed(user_paused, rs) ==
    IF user_paused THEN FALSE
    ELSE IF rs.drawdown_stage = 4 THEN FALSE
    ELSE IF rs.drawdown_stage = 2
         THEN ("side" \in DOMAIN rs) /\ rs["side"] = "sell"
    ELSE Cardinality(DOMAIN rs.open_positions) < max_open_positions

\* _get_max_volatility_for_risk_level
get_max_volatility_for_risk_level(risk_level) ==
    IF risk_level = "low" THEN 5
    ELSE IF risk_level = "medium" THEN 10
    ELSE IF risk_level = "high" THEN 20
    ELSE 10

\* _get_min_liquidity_for_position_size
get_min_liquidity_for_position_size(position_value) == position_value * 20

\* _calculate_stop_loss / _calculate_take_profit: price * (1 -+ percentage)
stop_loss_percent(risk_level) ==
    IF risk_level = "low" THEN 2 ELSE IF risk_level = "high" THEN 10 ELSE 5
take_profit_percent(risk_level) ==
    IF risk_level = "low" THEN 3 ELSE IF risk_level = "high" THEN 15 ELSE 8
calculate_stop_loss(price, side, risk_level) ==
    IF side = "buy" THEN Frac(price * (100 - stop_loss_percent(risk_level)), 100)
    ELSE Frac(price * (100 + stop_loss_percent(risk_level)), 100)
calculate_take_profit(price, side, risk_level) ==
    IF side = "buy" THEN Frac(price * (100 + take_profit_percent(risk_level)), 100)
    ELSE Frac(price * (100 - take_profit_percent(risk_level)), 100)

\* _calculate_total_allocation: sum of entry_price * quantity
RECURSIVE SumAllocation(_, _)
SumAllocation(open_positions, symbols) ==
    IF symbols = {} THEN 0
    ELSE LET s == CHOOSE x \in symbols : TRUE
         IN open_positions[s].entry_price * open_positions[s].quantity
            + SumAllocation(open_positions, symbols \ {s})
calculate_total_allocation(rs) ==
    SumAllocation(rs.open_positions, DOMAIN rs.open_positions)

\* The coefficient _check_correlation_risk uses for an existing symbol:
\* f"{signal.symbol}_{existing}", else the reverse key, else 0.3.
lookup_correlation(pc, symbol, existing) ==
    IF <<symbol, existing>> \in DOMAIN pc THEN pc[<<symbol, existing>>]
    ELSE IF <<existing, symbol>> \in DOMAIN pc THEN pc[<<existing, symbol>>]
    ELSE DefaultCorrelation

\* high_correlation_positions counting a correlation of exactly 0.7 as high.
high_correlation_positions_inclusive(rs, symbol, side) ==
    {e \in DOMAIN rs.open_positions :
        /\ ~(e = symbol /\ rs.open_positions[e].side # side)
        /\ lookup_correlation(rs.position_correlation, symbol, e) >= HighCorrelation}

\* The existing positions _check_correlation_risk counts as highly correlated.
high_correlation_positions(rs, symbol, side) ==
    {e \in DOMAIN rs.open_positions :
        /\ ~(e = symbol /\ rs.open_positions[e].side # side)
        /\ lookup_correlation(rs.position_correlation, symbol, e) > HighCorrelation}

\* _check_correlation_risk(user, signal, risk_state)
check_correlation_risk(rs, symbol, side) ==
    IF DOMAIN rs.open_positions = {} THEN TRUE
    ELSE IF DOMAIN rs.position_correlation = {} THEN TRUE
    ELSE ~(Cardinality(high_correlation_positions(rs, symbol, side)) > MaxHighCorrelations)

\* _check_portfolio_risk(user, signal, risk_state); quantity is a fraction.
\* current_equity = 0 divides by zero: the exception handler returns False.
check_portfolio_risk(rs, symbol, side, price, quantity) ==
    IF rs.current_equity = 0 THEN FALSE
    ELSE IF (calculate_total_allocation(rs) * quantity.d + price * quantity.n) * 100
               > MaxAllocation * rs.current_equity * quantity.d
         THEN FALSE
    ELSE check_correlation_risk(rs, symbol, side)

(***************************************************************************)
(* Risk Gate: validate_signal                                              *)
(***************************************************************************)
\* The settings used when get_trading_settings returns nothing.
DefaultSettings ==
    [trading_mode |-> "paper", risk_level |-> "medium", is_paused |-> FALSE,
     max_open_positions |-> 5]

\* ExchangeFactory.create_exchange(exchange_name, api_key, api_secret) takes
\* three arguments; validate_signal calls create_exchange('binance', user).
create_exchange_params == 3
create_exchange_args == 2
create_exchange_raises == create_exchange_args # create_exchange_params

\* position_value assigned in either trading mode.
position_value_bound_always(settings) == TRUE

\* position_value is assigned only inside the `trading_mode == 'live'` block,
\* after the exchange was created.
position_value_bound(settings) ==
    settings.trading_mode = "live" /\ ~create_exchange_raises

Reject(reason, sig) == [done |-> TRUE, result |-> "none", reason |-> reason, signal |-> sig]
Accept(sig) == [done |-> TRUE, result |-> "signal", reason |-> "validated", signal |-> sig]

\* validate_signal from the _is_trading_allowed check on (lines 85-178), for
\* the call inputs c, the refreshed risk state rs and the number of open
\* positions the position repository reports.
admission_checks(c, settings, rs, open_positions_count) ==
    LET sig == c.signal
        live == settings.trading_mode = "live"
    IN
    IF ~is_trading_allowed(c.user_paused, rs) THEN Reject("not_allowed", sig)
    ELSE IF live /\ open_positions_count >= settings.max_open_positions
         THEN Reject("max_open_positions", sig)
    ELSE IF live /\ create_exchange_raises THEN Reject("error", sig)
    ELSE IF c.volatility > get_max_volatility_for_risk_level(settings.risk_level)
         THEN Reject("volatility", sig)
    \* line 135 reads position_value: UnboundLocalError in paper mode
    ELSE IF ~position_value_bound(settings) THEN Reject("error", sig)
    ELSE IF c.liquidity < get_min_liquidity_for_position_size(sig.quantity.n * sig.price)
         THEN Reject("liquidity", sig)
    ELSE
      LET size == calculate_position_size(c.user_balance, c.user_risk_level,
                      rs.drawdown_stage, sig.symbol, sig.price, sig.stop_loss.n)
      IN IF size.units <= 0 THEN Reject("size", sig)
         ELSE
           LET q == Frac(size.units, Pow10(size.p))
               sig2 == [sig EXCEPT
                   !.quantity = q,
                   !.stop_loss = IF sig.stop_loss.n = 0
                                 THEN calculate_stop_loss(sig.price, sig.side, settings.risk_level)
                                 ELSE @,
                   !.take_profit = IF sig.take_profit.n = 0
                                   THEN calculate_take_profit(sig.price, sig.side, settings.risk_level)
                                   ELSE @]
           IN IF ~check_portfolio_risk(rs, sig.symbol, sig.side, sig.price, q)
              THEN Reject("portfolio", sig2)
              ELSE Accept(sig2)

EffectiveSettings(c) == IF c.settings_found THEN c.settings ELSE DefaultSettings

\* validate_signal(user, signal): [ret, states, matrix]: what it returns and
\* the RiskManager's risk-state map and correlation matrix afterwards.
validate_signal(c, states, matrix, u, equity, positions, t) ==
    LET settings == EffectiveSettings(c)
    IN IF settings.is_paused
       THEN [ret |-> Reject("paused", c.signal), states |-> states, matrix |-> matrix]
       ELSE LET r == get_user_risk_state(states, matrix, u, equity, positions, t, c.fault)
            IN [ret |-> admission_checks(c, settings, r.rs,
                                         Cardinality(OpenSymbols(positions))),
                states |-> [v \in DOMAIN states \cup {u} |->
                               IF v = u THEN r.rs ELSE states[v]],
                matrix |-> r.matrix]

(***************************************************************************)
(* SpecGate: one validate_signal call observed in any risk state that      *)
(* changing equity, time and earlier reads can produce                     *)
(***************************************************************************)
ThreePositions ==
    [s \in Symbols |-> IF s = "ADA/USDT" THEN "none" ELSE "buy"]

GateEquities == {80, 85, 90, 100}
GatePositions == {NoPositions, TwoPositions, ThreePositions}

\* What get_trading_settings returns when it finds the user's settings.
GateSettings ==
    {[trading_mode |-> m, risk_level |-> l, is_paused |-> p, max_open_positions |-> k] :
        m \in {"paper", "live"}, l \in {"medium"}, p \in BOOLEAN, k \in {2}}

\* Price of every signal, balance and risk level of the user, and the
\* market's liquidity, in the calls of the model.
GatePrice == 100
GateBalance == 1000
GateLiquidity == 100000
\* Market volatility (percent) as reported by the market analyzer.
GateVolatilities == {4, 12}

GateSignals ==
    {[symbol |-> s, side |-> d, price |-> GatePrice,
      quantity |-> [n |-> 1, d |-> 1], stop_loss |-> [n |-> 0, d |-> 1],
      take_profit |-> [n |-> 0, d |-> 1]] :
        s \in {"BTC/USDT", "XRP/USDT"}, d \in Sides}
    \cup {[symbol |-> "XRP/USDT", side |-> "buy", price |-> GatePrice,
            quantity |-> [n |-> 1, d |-> 1], stop_loss |-> [n |-> 98, d |-> 1],
            take_profit |-> [n |-> 0, d |-> 1]]}

\* The calls validate_signal(user, signal) of the model, with what the
\* collaborators answer during the call.
Calls ==
    {[user |-> u, settings_found |-> sf, settings |-> st, user_paused |-> up,
      signal |-> sig, volatility |-> v, liquidity |-> GateLiquidity,
      user_balance |-> GateBalance, user_risk_level |-> "medium",
      fault |-> "none"] :
        u \in Users, sf \in BOOLEAN, st \in GateSettings, up \in BOOLEAN,
        sig \in GateSignals, v \in GateVolatilities}

ValidateSignal(c) ==
    LET u == c.user
        r == validate_signal(c, user_risk_state, correlation_matrix, u,
                             db_equity[u], db_positions[u], now)
    IN /\ ~vs_ret.done
       /\ c.settings_found \/ c.settings = CHOOSE st \in GateSettings : TRUE
       /\ user_risk_state' = r.states
       /\ correlation_matrix' = r.matrix
       /\ vs_call' = c
       /\ vs_ret' = r.ret
       /\ risk_op' = "validate"
       /\ UNCHANGED <<db_equity, db_positions, now, sizeVars, corrVars, schedVars, healVars,
                       engVars, dispVars, swapVars, loopVars, sigVars, calVars, startVars, sweepVars, stallVars, shedVars, restartVars>>

InitGate ==
    /\ db_equity \in [Users -> GateEquities]
    /\ db_positions \in [Users -> GatePositions]
    /\ now = RiskNow0
    /\ user_risk_state = EmptyMap
    /\ correlation_matrix = EmptyMap
    /\ risk_op = "init"
    /\ GateIdle /\ SizeIdle /\ CorrIdle /\ SchedIdle /\ HealIdle /\ EngIdle /\ DispIdle
    /\ SwapIdle /\ LoopIdle /\ SigIdle /\ CalIdle
    /\ StartIdle
    /\ SweepIdle
    /\ StallIdle
    /\ ShedIdle
    /\ RestartIdle

NextGate ==
    \/ \E u \in Users, e \in GateEquities : SetEquity(u, e)
    \/ AdvanceTime
    \/ \E u \in Users : GetUserRiskState(u, "none")
    \/ \E c \in Calls : ValidateSignal(c)

SpecGate == InitGate /\ [][NextGate]_vars

(***************************************************************************)
(* Risk Gate: properties of one validate_signal call                       *)
(***************************************************************************)
\* The state right after validate_signal returned: vs_call is the call,
\* vs_ret what it returned, user_risk_state what the call left behind.
Returned == risk_op = "validate" /\ vs_ret.done
CallSettings == EffectiveSettings(vs_call)
HasRiskState == vs_call.user \in DOMAIN user_risk_state
CallRiskState == user_risk_state[vs_call.user]
CallStage == CallRiskState.drawdown_stage
\* The position the signal's symbol has, in the database and in the risk state.
ExistingSide ==
    IF /\ vs_call.signal.symbol \in DOMAIN CallRiskState.open_positions
       /\ CallRiskState.open_positions[vs_call.signal.symbol].side
              = db_positions[vs_call.user][vs_call.signal.symbol]
    THEN db_positions[vs_call.user][vs_call.signal.symbol]
    ELSE "none"
\* The signal closes an existing position / opens a new one or adds to one.
Closes == ExistingSide \notin {"none", vs_call.signal.side}
OpensOrAdds == ~Closes
ClosesLong == ExistingSide = "buy" /\ vs_call.signal.side = "sell"
NewBuy == ExistingSide = "none" /\ vs_call.signal.side = "buy"

\* The size validate_signal computes for the call.
CallSize ==
    calculate_position_size(vs_call.user_balance, vs_call.user_risk_level, CallStage,
        vs_call.signal.symbol, vs_call.signal.price, vs_call.signal.stop_loss.n)

\* Every admission check other than the drawdown stage passes: not paused,
\* below the open-position limits, volatility and liquidity within limits,
\* computed size > 0, allocation <= 80% of equity, correlation check passes.
OtherChecksPass ==
    /\ ~CallSettings.is_paused
    /\ ~vs_call.user_paused
    /\ Cardinality(DOMAIN CallRiskState.open_positions) < max_open_positions
    /\ CallSettings.trading_mode = "live" =>
           Cardinality(OpenSymbols(db_positions[vs_call.user])) < CallSettings.max_open_positions
    /\ vs_call.volatility <= get_max_volatility_for_risk_level(CallSettings.risk_level)
    /\ vs_call.liquidity >= get_min_liquidity_for_position_size(
                                vs_call.signal.quantity.n * vs_call.signal.price)
    /\ CallSize.units > 0
    /\ check_portfolio_risk(CallRiskState, vs_call.signal.symbol, vs_call.signal.side,
                            vs_call.signal.price, Frac(CallSize.units, Pow10(CallSize.p)))

\* The stage permits the signal's direction (stage 2 and 3: exits only).
StagePermits ==
    IF CallStage = 4 THEN FALSE
    ELSE IF CallStage \in {2, 3} THEN Closes
    ELSE TRUE

\* C1: at drawdown stage 4 validate_signal returns no-trade for every signal,
\* and the rejection is the gate's decision (trading paused or not allowed),
\* whatever the other inputs are.
C1_Stage4RejectsAll ==
    (Returned /\ HasRiskState /\ CallStage = 4) =>
        vs_ret.result = "none" /\ vs_ret.reason \in {"paused", "not_allowed"}

\* C1 (witness): a closing sell of an existing long, nothing paused, calm
\* market, rejected at stage 4.
C1_Witness ==
    /\ Returned /\ HasRiskState /\ CallStage = 4
    /\ ~CallSettings.is_paused /\ ~vs_call.user_paused
    /\ ClosesLong /\ vs_call.volatility = 4
    /\ vs_ret.result = "none" /\ vs_ret.reason = "not_allowed"

\* C2 (as stated): at drawdown stage 2 validate_signal rejects every new buy
\* and accepts a sell that closes an existing long when all other admission
\* checks pass.
C2_Stage2ExitsOnly ==
    (Returned /\ HasRiskState /\ CallStage = 2) =>
        /\ NewBuy => vs_ret.result = "none"
        /\ (ClosesLong /\ OtherChecksPass) => vs_ret.result = "signal"

\* C3 (as stated): at drawdown stage 3 validate_signal accepts closing signals
\* (when the other admission checks pass) and only those: a signal that opens
\* or adds to a position is rejected.
C3_Stage3ClosingOnly ==
    (Returned /\ HasRiskState /\ CallStage = 3) =>
        /\ OpensOrAdds => vs_ret.result = "none"
        /\ (Closes /\ OtherChecksPass) => vs_ret.result = "signal"

\* C6 (as stated): in either trading mode, a signal that passes every
\* admission check is returned; no-trade is returned only when a check fails.
C6_PassingSignalReturned ==
    (Returned /\ HasRiskState /\ StagePermits /\ OtherChecksPass) =>
        vs_ret.result = "signal"

\* C34: validate_signal leaves the caller's signal unchanged whenever it
\* returns no-trade: quantity, stop_loss and take_profit are modified only
\* for a signal that is accepted and returned.
C34_NoTradeLeavesSignal ==
    Returned => (vs_ret.signal # vs_call.signal => vs_ret.result = "signal")

\* A paper-mode call with a stop-loss that passed the volatility check and
\* came back as no-trade, the signal as it was handed in.
C34_Witness ==
    /\ Returned
    /\ vs_ret.result = "none" /\ vs_ret.reason = "error"
    /\ CallSettings.trading_mode = "paper"
    /\ vs_call.signal.stop_loss.n # 0
    /\ vs_ret.signal = vs_call.signal

(***************************************************************************)
(* SpecCorr: _check_correlation_risk applied to the risk state the Risk     *)
(* Gate builds from a populated correlation cache                          *)
(***************************************************************************)
\* Coefficients (tenths) the correlation cache may hold for a pair.
CorrValues == {3, 7, 8}
\* self.correlation_matrix, filled by the correlation estimator for every
\* pair of instruments under the key the Risk Gate reads it by.
CorrMatrices == [KeysOf(SymbolOrder) -> CorrValues]
\* Open positions of the user: any side for the first instrument, long or
\* none for the others.
CorrPositions ==
    {pos \in [Symbols -> {"none", "buy", "sell"}] :
        \A s \in Symbols \ {SymbolOrder[1]} : pos[s] # "sell"}
\* Signals for the first and the last instrument of the repository order:
\* their pairs are stored under f"{signal}_{existing}" and under the reverse.
CorrSignals == [symbol : {SymbolOrder[1], SymbolOrder[Len(SymbolOrder)]}, side : Sides]

\* _check_correlation_risk(user, signal, risk_state) on the stored state.
CheckCorrelationRisk(u, sig) ==
    /\ u \in DOMAIN user_risk_state
    /\ corr_sig' = sig
    /\ corr_ok' = check_correlation_risk(user_risk_state[u], sig.symbol, sig.side)
    /\ risk_op' = "corr_check"
    /\ UNCHANGED <<db_equity, db_positions, now, user_risk_state, correlation_matrix,
                   gateVars, sizeVars, schedVars, healVars, engVars, dispVars, swapVars,
                   loopVars, sigVars, calVars, startVars, sweepVars, stallVars, shedVars, restartVars>>

InitCorr ==
    /\ db_equity = [u \in Users |-> 100]
    /\ db_positions \in [Users -> CorrPositions]
    /\ now = RiskNow0
    /\ user_risk_state = EmptyMap
    /\ correlation_matrix \in CorrMatrices
    /\ risk_op = "init"
    /\ GateIdle /\ SizeIdle /\ CorrIdle /\ SchedIdle /\ HealIdle /\ EngIdle /\ DispIdle
    /\ SwapIdle /\ LoopIdle /\ SigIdle /\ CalIdle
    /\ StartIdle
    /\ SweepIdle
    /\ StallIdle
    /\ ShedIdle
    /\ RestartIdle

NextCorr ==
    \/ \E u \in Users : GetUserRiskState(u, "none")
    \/ \E u \in Users, sig \in CorrSignals : CheckCorrelationRisk(u, sig)

SpecCorr == InitCorr /\ [][NextCorr]_vars

\* C7 (reference): the open positions of the stored state, other than a
\* same-symbol position on the opposite side, for which a coefficient > 0.7
\* is stored for the pair (position, signal's symbol), under either key.
C7_HighNonHedge(rs, sig) ==
    {e \in DOMAIN rs.open_positions :
        /\ ~(e = sig.symbol /\ rs.open_positions[e].side # sig.side)
        /\ \E k \in {<<sig.symbol, e>>, <<e, sig.symbol>>} \cap DOMAIN rs.position_correlation :
               rs.position_correlation[k] > HighCorrelation}

\* C7: the correlation gate rejects a signal if and only if strictly more
\* than two open positions (a same-symbol opposite-side hedge not counted)
\* have a stored correlation > 0.7 with the signal's symbol.
C7_RejectsIffMoreThanTwo ==
    risk_op = "corr_check" =>
        (~corr_ok <=>
            Cardinality(C7_HighNonHedge(user_risk_state[CHOOSE u \in Users : TRUE], corr_sig)) > 2)

\* C7 (witness): a signal rejected with three highly correlated positions.
C7_Witness ==
    /\ risk_op = "corr_check"
    /\ ~corr_ok
    /\ Cardinality(C7_HighNonHedge(user_risk_state[CHOOSE u \in Users : TRUE], corr_sig)) = 3

(***************************************************************************)
(* Scheduler (core/scheduler.py)                                           *)
(***************************************************************************)
TaskIds == {"t1", "t2"}
\* The callables tasks are registered with.
SchedFunctions == {"f"}
\* Intervals (seconds) tasks are registered with.
ShortInterval == 1
LongInterval == 3
Intervals == {ShortInterval, LongInterval}
\* datetime.now().timestamp() when the model starts (an epoch second, far
\* above every interval) and the last second modelled.
SchedNow0 == 5
SchedMaxNow == 8

\* _should_run_task with a strict comparison of the elapsed time.
should_run_task_strict(task, t) ==
    IF task.is_paused THEN FALSE
    ELSE IF task.type = "interval" THEN (t - task.last_run) > task.interval
    ELSE FALSE

\* _should_run_task(task, now).  Every task of the registry has type
\* 'interval': add_job is the only method that registers one.
should_run_task(task, t) ==
    IF task.is_paused THEN FALSE
    ELSE IF task.type = "interval" THEN (t - task.last_run) >= task.interval
    ELSE FALSE

\* No registry call is the last operation.
NoCall == [op |-> "none"]

\* The entry add_job stores keeps the paused flag of a fresh task off but
\* takes the interval for the time of the last run.
new_task_run_recorded(func, interval, is_critical) ==
    [function |-> func, type |-> "interval", interval |-> interval, last_run |-> interval,
     is_critical |-> is_critical, is_paused |-> FALSE]

\* The entry add_job stores (function stands for the callable with its
\* args and kwargs).
new_task(func, interval, is_critical) ==
    [function |-> func, type |-> "interval", interval |-> interval, last_run |-> 0,
     is_critical |-> is_critical, is_paused |-> FALSE]

\* self.tasks[task_id] = {...}
store_task(registry, id, task) ==
    [t \in DOMAIN registry \cup {id} |-> IF t = id THEN task ELSE registry[t]]

\* start() / stop()
Start ==
    /\ ~running
    /\ running' = TRUE
    /\ sched_op' = "start"
    /\ sched_call' = NoCall
    /\ UNCHANGED <<tasks, sched_now, dispatched, nonSched>>

Stop ==
    /\ running
    /\ running' = FALSE
    /\ sched_op' = "stop"
    /\ sched_call' = NoCall
    /\ UNCHANGED <<tasks, sched_now, dispatched, nonSched>>

\* The wall clock moves on.
SchedAdvance ==
    /\ sched_now < SchedMaxNow
    /\ sched_now' = sched_now + 1
    /\ sched_op' = "advance"
    /\ sched_call' = NoCall
    /\ UNCHANGED <<running, tasks, dispatched, nonSched>>

\* add_job(task_id, task_func, interval, is_critical): overwrites, with a
\* warning when the id exists; returns True.
AddJob(id, func, interval, is_critical) ==
    /\ tasks' = store_task(tasks, id, new_task(func, interval, is_critical))
    /\ sched_op' = "add_job"
    /\ sched_call' = [op |-> "add_job", id |-> id, function |-> func, interval |-> interval,
                      is_critical |-> is_critical, existed |-> id \in DOMAIN tasks,
                      result |-> "True"]
    /\ UNCHANGED <<running, sched_now, dispatched, nonSched>>

\* remove_task(task_id); an unknown id changes nothing.
RemoveTask(id) ==
    /\ tasks' = [t \in DOMAIN tasks \ {id} |-> tasks[t]]
    /\ sched_op' = "remove_task"
    /\ sched_call' = [op |-> "remove_task", id |-> id, existed |-> id \in DOMAIN tasks,
                      result |-> IF id \in DOMAIN tasks THEN "True" ELSE "False"]
    /\ UNCHANGED <<running, sched_now, dispatched, nonSched>>

\* pause_task(task_id) / resume_task(task_id)
PauseTask(id) ==
    /\ tasks' = [t \in DOMAIN tasks |->
                    IF t = id THEN [tasks[t] EXCEPT !.is_paused = TRUE] ELSE tasks[t]]
    /\ sched_op' = "pause_task"
    /\ sched_call' = NoCall
    /\ UNCHANGED <<running, sched_now, dispatched, nonSched>>

ResumeTask(id) ==
    /\ tasks' = [t \in DOMAIN tasks |->
                    IF t = id THEN [tasks[t] EXCEPT !.is_paused = FALSE] ELSE tasks[t]]
    /\ sched_op' = "resume_task"
    /\ sched_call' = NoCall
    /\ UNCHANGED <<running, sched_now, dispatched, nonSched>>

\* The loop of pause_non_critical_tasks over self.tasks.values().
pause_non_critical(registry) ==
    [t \in DOMAIN registry |->
        IF ~registry[t].is_critical /\ ~registry[t].is_paused
        THEN [registry[t] EXCEPT !.is_paused = TRUE] ELSE registry[t]]

\* pause_non_critical_tasks() / resume_all_tasks()
PauseNonCriticalTasks ==
    /\ tasks' = pause_non_critical(tasks)
    /\ sched_op' = "pause_non_critical_tasks"
    /\ sched_call' = NoCall
    /\ UNCHANGED <<running, sched_now, dispatched, nonSched>>

ResumeAllTasks ==
    /\ tasks' = [t \in DOMAIN tasks |->
                    IF tasks[t].is_paused
                    THEN [tasks[t] EXCEPT !.is_paused = FALSE] ELSE tasks[t]]
    /\ sched_op' = "resume_all_tasks"
    /\ sched_call' = NoCall
    /\ UNCHANGED <<running, sched_now, dispatched, nonSched>>

\* One pass of _scheduler_loop: _check_and_execute_tasks() under the lock.
\* A due task gets a worker thread and last_run = now.timestamp().
Tick ==
    /\ running
    /\ dispatched' = {t \in DOMAIN tasks : should_run_task(tasks[t], sched_now)}
    /\ tasks' = [t \in DOMAIN tasks |->
                    IF should_run_task(tasks[t], sched_now)
                    THEN [tasks[t] EXCEPT !.last_run = sched_now] ELSE tasks[t]]
    /\ sched_op' = "tick"
    /\ sched_call' = NoCall
    /\ UNCHANGED <<running, sched_now, nonSched>>

InitSched ==
    /\ running = FALSE
    /\ tasks = EmptyMap
    /\ sched_now = SchedNow0
    /\ dispatched = {}
    /\ sched_op = "init"
    /\ sched_call = NoCall
    /\ RiskIdle /\ GateIdle /\ SizeIdle /\ CorrIdle /\ HealIdle /\ EngIdle /\ DispIdle
    /\ SwapIdle /\ LoopIdle /\ SigIdle /\ CalIdle
    /\ StartIdle
    /\ SweepIdle
    /\ StallIdle
    /\ ShedIdle
    /\ RestartIdle

NextSched ==
    \/ Start
    \/ Stop
    \/ SchedAdvance
    \/ \E id \in TaskIds, f \in SchedFunctions, i \in Intervals, c \in BOOLEAN : AddJob(id, f, i, c)
    \/ \E id \in TaskIds : RemoveTask(id)
    \/ \E id \in TaskIds : PauseTask(id)
    \/ \E id \in TaskIds : ResumeTask(id)
    \/ PauseNonCriticalTasks
    \/ ResumeAllTasks
    \/ Tick

SpecSched == InitSched /\ [][NextSched]_vars

\* C8: at every tick a registered interval task is dispatched if and only if
\* it is not paused and now - last_run >= interval; in particular a paused
\* task is never dispatched, and a never-run task (last_run = 0) that is not
\* paused is dispatched on the first tick after its registration.
C8_TickDispatchesIffDue ==
    [][sched_op' = "tick" =>
          /\ dispatched' \subseteq DOMAIN tasks
          /\ \A t \in DOMAIN tasks :
                /\ t \in dispatched' <=>
                      (~tasks[t].is_paused /\ sched_now - tasks[t].last_run >= tasks[t].interval)
                /\ tasks[t].is_paused => t \notin dispatched'
                /\ (tasks[t].last_run = 0 /\ ~tasks[t].is_paused) => t \in dispatched'
      ]_vars

\* C8 (witness): a tick that dispatched one task and left alone a paused task
\* that ran before and whose interval had elapsed since.
C8_Witness ==
    /\ sched_op = "tick"
    /\ \E t \in dispatched : tasks[t].last_run = sched_now
    /\ \E t \in DOMAIN tasks \ dispatched :
          /\ tasks[t].is_paused
          /\ tasks[t].last_run > 0
          /\ sched_now - tasks[t].last_run >= tasks[t].interval

(***************************************************************************)
(* Self-Healing Supervisor (self_healing.py)                               *)
(***************************************************************************)
\* self.healing_strategies in insertion order (_configure_healing_strategies
\* with a trading engine present).
HealOrder == <<"database_connection", "api_connections", "system_health", "trading_engine">>
Strategies == {HealOrder[i] : i \in 1..Len(HealOrder)}

max_attempts_database_connection == 5
max_attempts_api_connections == 5
max_attempts_system_health == 3
max_attempts_trading_engine == 3

max_attempts(s) ==
    IF s = "database_connection" THEN max_attempts_database_connection
    ELSE IF s = "api_connections" THEN max_attempts_api_connections
    ELSE IF s = "system_health" THEN max_attempts_system_health
    ELSE max_attempts_trading_engine

severity(s) == IF s = "system_health" THEN "warning" ELSE "critical"

\* How far above max_attempts the model lets a counter climb.
HealSlack == 2

\* The heal is attempted although the counter is one above max_attempts.
within_max_attempts_off_by_one(a, s) == a <= max_attempts(s) + 1

\* if strategy["attempts"] <= strategy["max_attempts"]
within_max_attempts(a, s) == a <= max_attempts(s)

\* A successful heal clears the counter.
after_successful_heal_reset(a) == 0

\* max(0, strategy["attempts"] - 1)
after_successful_heal(a) == Max(0, a - 1)

backoff_factor == 2
initial_delay_default == 5
initial_delay_trading_engine == 10

\* strategy["initial_delay"]
initial_delay(s) ==
    IF s = "trading_engine" THEN initial_delay_trading_engine ELSE initial_delay_default

RECURSIVE Pow(_, _)
Pow(b, e) == IF e = 0 THEN 1 ELSE b * Pow(b, e - 1)

\* The exponent is the counter itself.
backoff_delay_late(s, a) == Frac(initial_delay(s) * Pow(backoff_factor, a), 1)

\* delay = strategy["initial_delay"] * (strategy["backoff_factor"] ** (a - 1)),
\* a being strategy["attempts"] as read after the increment (a float power:
\* a negative exponent gives a fraction).
backoff_delay(s, a) ==
    IF a >= 1 THEN Frac(initial_delay(s) * Pow(backoff_factor, a - 1), 1)
    ELSE Frac(initial_delay(s), Pow(backoff_factor, 1 - a))

NoDelay == [n |-> 0, d |-> 1]

\* The alert is raised at every failed heal of a critical strategy.
alerts_on_failure_every_time(s, a) == severity(s) = "critical"

\* _handle_recovery_failure: strategy["severity"] == "critical" and
\* strategy["attempts"] == strategy["max_attempts"]
alerts_on_failure(s, a) == severity(s) = "critical" /\ a = max_attempts(s)

\* _send_critical_alert: send_admin_alert is called only when
\* self.notification_manager is set; otherwise nothing is sent.
send_critical_alert(has_manager, kind) == IF has_manager THEN kind ELSE "unsent"

\* The history of a strategy's run of failing cycles: one more failing check,
\* or the run is broken (-1: the run is not followed any further).
StreakMore(s) == [streak EXCEPT ![s] = IF @ >= 0 THEN @ + 1 ELSE @]
StreakRestart(s) == [streak EXCEPT ![s] = IF @ >= 0 THEN 0 ELSE @]
StreakBroken(s) == [streak EXCEPT ![s] = -1]

Op(kind, name) == [kind |-> kind, name |-> name]
SupName == HealOrder[sup_cur]

\* The for loop of _run_healing_cycle moves to the next strategy, or the
\* cycle ends and _healing_loop sleeps healing_interval.
SupNext ==
    IF sup_cur = Len(HealOrder)
    THEN sup_pc' = "idle" /\ sup_cur' = 0
    ELSE sup_pc' = "check" /\ sup_cur' = sup_cur + 1

\* _healing_loop: a new _run_healing_cycle starts.
BeginCycle ==
    /\ sup_pc = "idle"
    /\ sup_pc' = "check" /\ sup_cur' = 1
    /\ alert' = "none"
    /\ heal_op' = Op("begin_cycle", "none")
    /\ UNCHANGED <<attempts, sup_read, man_pc, delay, streak, nonHeal>>

\* strategy["check"]() returned True: _reset_strategy_tracking.
CheckHealthy ==
    /\ sup_pc = "check"
    /\ attempts' = [attempts EXCEPT ![SupName] = 0]
    /\ SupNext
    /\ alert' = "none"
    /\ heal_op' = Op("check_ok", SupName)
    /\ streak' = StreakRestart(SupName)
    /\ UNCHANGED <<sup_read, man_pc, delay, nonHeal>>

\* strategy["check"]() returned False: _attempt_component_recovery begins
\* and reads the counter for `strategy["attempts"] += 1`.
CheckFails ==
    /\ sup_pc = "check"
    /\ attempts[SupName] < max_attempts(SupName) + HealSlack
    /\ sup_read' = attempts[SupName]
    /\ sup_pc' = "increment"
    /\ alert' = "none"
    /\ heal_op' = Op("check_failed", SupName)
    /\ streak' = StreakMore(SupName)
    /\ UNCHANGED <<attempts, sup_cur, man_pc, delay, nonHeal>>

\* `strategy["attempts"] += 1` stores.
IncrementWrite ==
    /\ sup_pc = "increment"
    /\ attempts' = [attempts EXCEPT ![SupName] = sup_read + 1]
    /\ sup_read' = 0
    /\ sup_pc' = "delay"
    /\ alert' = "none"
    /\ heal_op' = Op("increment", SupName)
    /\ UNCHANGED <<sup_cur, man_pc, delay, streak, nonHeal>>

\* The delay is computed from the counter as it is read now, and
\* time.sleep(delay) begins.
ComputeDelay ==
    /\ sup_pc = "delay"
    /\ delay' = backoff_delay(SupName, attempts[SupName])
    /\ sup_pc' = "sleep"
    /\ alert' = "none"
    /\ heal_op' = Op("sleep", SupName)
    /\ UNCHANGED <<attempts, sup_cur, sup_read, man_pc, streak, nonHeal>>

\* The sleep is over and the counter is within max_attempts: heal is invoked.
HealStart ==
    /\ sup_pc = "sleep"
    /\ within_max_attempts(attempts[SupName], SupName)
    /\ sup_pc' = "heal"
    /\ alert' = "none"
    /\ heal_op' = Op("heal_start", SupName)
    /\ delay' = NoDelay
    /\ UNCHANGED <<attempts, sup_cur, sup_read, man_pc, streak, nonHeal>>

\* The sleep is over and the counter is above max_attempts:
\* _handle_persistent_failure.
PersistentFailure ==
    /\ sup_pc = "sleep"
    /\ ~within_max_attempts(attempts[SupName], SupName)
    /\ SupNext
    /\ \E has_manager \in BOOLEAN :
          alert' = send_critical_alert(has_manager, "manual_intervention")
    /\ heal_op' = Op("persistent_failure", SupName)
    /\ delay' = NoDelay
    /\ UNCHANGED <<attempts, sup_read, man_pc, streak, nonHeal>>

\* strategy["heal"]() returned True; the counter is read for the decrement.
HealSucceeds ==
    /\ sup_pc = "heal"
    /\ sup_read' = attempts[SupName]
    /\ sup_pc' = "decrement"
    /\ alert' = "none"
    /\ heal_op' = Op("heal_ok", SupName)
    /\ streak' = StreakBroken(SupName)
    /\ UNCHANGED <<attempts, sup_cur, man_pc, delay, nonHeal>>

\* strategy["attempts"] = max(0, strategy["attempts"] - 1) stores.
DecrementWrite ==
    /\ sup_pc = "decrement"
    /\ attempts' = [attempts EXCEPT ![SupName] = after_successful_heal(sup_read)]
    /\ sup_read' = 0
    /\ SupNext
    /\ alert' = "none"
    /\ heal_op' = Op("decrement", SupName)
    /\ UNCHANGED <<man_pc, delay, streak, nonHeal>>

\* strategy["heal"]() returned False: _handle_recovery_failure.
HealFails ==
    /\ sup_pc = "heal"
    /\ SupNext
    /\ \E has_manager \in BOOLEAN :
          alert' = IF alerts_on_failure(SupName, attempts[SupName])
                   THEN send_critical_alert(has_manager, "critical")
                   ELSE "none"
    /\ heal_op' = Op("heal_failed", SupName)
    /\ UNCHANGED <<attempts, sup_read, man_pc, delay, streak, nonHeal>>

\* The manual recovery leaves the counter as it finds it.
forced_attempts_kept(a) == a

\* strategy["attempts"] = 0 ("force reset of attempts")
forced_attempts(a) == 0

\* manual_component_recovery(name), called on an operator's thread:
\* strategy["attempts"] = 0, then strategy["heal"]() runs.
ManualReset(s) ==
    /\ man_pc = "idle"
    /\ attempts' = [attempts EXCEPT ![s] = forced_attempts(@)]
    /\ man_pc' = s
    /\ alert' = "none"
    /\ heal_op' = Op("manual_reset", s)
    /\ streak' = StreakBroken(s)
    /\ UNCHANGED <<sup_pc, sup_cur, sup_read, delay, nonHeal>>

\* The manual heal returns its result.
ManualHealReturns(healed) ==
    /\ man_pc # "idle"
    /\ man_pc' = "idle"
    /\ alert' = "none"
    /\ heal_op' = Op(IF healed THEN "manual_heal_ok" ELSE "manual_heal_failed", "none")
    /\ UNCHANGED <<attempts, sup_pc, sup_cur, sup_read, delay, streak, nonHeal>>

\* manual_component_recovery with a name that has no strategy: returns False.
ManualUnknown ==
    /\ man_pc = "idle"
    /\ alert' = "none"
    /\ heal_op' = Op("manual_unknown", "none")
    /\ UNCHANGED <<attempts, sup_pc, sup_cur, sup_read, man_pc, delay, streak, nonHeal>>

InitHeal ==
    /\ attempts = [s \in Strategies |-> 0]
    /\ sup_pc = "idle" /\ sup_cur = 0 /\ sup_read = 0
    /\ man_pc = "idle"
    /\ alert = "none"
    /\ heal_op = Op("init", "none")
    /\ delay = NoDelay
    /\ streak = [s \in Strategies |-> -1]
    /\ RiskIdle /\ GateIdle /\ SizeIdle /\ CorrIdle /\ SchedIdle /\ EngIdle /\ DispIdle
    /\ SwapIdle /\ LoopIdle /\ SigIdle /\ CalIdle
    /\ StartIdle
    /\ SweepIdle
    /\ StallIdle
    /\ ShedIdle
    /\ RestartIdle

NextHeal ==
    \/ BeginCycle
    \/ CheckHealthy
    \/ CheckFails
    \/ IncrementWrite
    \/ ComputeDelay
    \/ HealStart
    \/ PersistentFailure
    \/ HealSucceeds
    \/ DecrementWrite
    \/ HealFails
    \/ \E s \in Strategies : ManualReset(s)
    \/ \E healed \in BOOLEAN : ManualHealReturns(healed)
    \/ ManualUnknown

SpecHeal == InitHeal /\ [][NextHeal]_vars

ManualKinds == {"manual_reset", "manual_heal_ok", "manual_heal_failed", "manual_unknown"}

\* C23: manual_component_recovery(name) for a registered strategy sets the
\* strategy's counter to 0 whatever it was, leaves the other counters alone,
\* starts the heal without computing or sleeping a backoff delay, and the
\* heal it started returns once, with the heal's result, without touching
\* any counter; for an unknown name it returns False and changes no
\* strategy state.
C23_ManualRecovery ==
    [][heal_op'.kind \in ManualKinds =>
          /\ delay' = delay /\ sup_pc' = sup_pc /\ sup_cur' = sup_cur
          /\ heal_op'.kind = "manual_reset" =>
                /\ heal_op'.name \in Strategies
                /\ attempts'[heal_op'.name] = 0
                /\ \A s \in Strategies \ {heal_op'.name} : attempts'[s] = attempts[s]
                /\ man_pc = "idle" /\ man_pc' = heal_op'.name
          /\ heal_op'.kind \in {"manual_heal_ok", "manual_heal_failed"} =>
                /\ man_pc \in Strategies /\ man_pc' = "idle"
                /\ attempts' = attempts
          /\ heal_op'.kind = "manual_unknown" =>
                /\ attempts' = attempts
                /\ man_pc' = man_pc
      ]_vars

\* C23 (witness): system_health was forced to 0 by a manual recovery while
\* the supervisor sleeps the delay it computed from a counter of 4, one
\* above max_attempts.
C23_Witness ==
    /\ heal_op = Op("manual_reset", "system_health")
    /\ attempts["system_health"] = 0
    /\ man_pc = "system_health"
    /\ sup_pc = "sleep" /\ SupName = "system_health"
    /\ delay = backoff_delay("system_health", max_attempts_system_health + 1)

\* C39: the heal of a strategy never runs on the supervisor's thread and on
\* the thread of manual_component_recovery at once, and no update of its
\* counter is lost: a read-modify-write of the supervisor stores a value
\* computed from the counter as it is at the time of the store.
C39_HealExclusiveCounterSafe ==
    [][\A s \in Strategies :
          /\ ~(sup_pc' = "heal" /\ sup_cur' > 0 /\ HealOrder[sup_cur'] = s /\ man_pc' = s)
          /\ heal_op' \in {Op("increment", s), Op("decrement", s)} => attempts[s] = sup_read
      ]_vars

\* A step of the supervisor's recovery attempt for strategy s (the code
\* between a failing check and the end of _attempt_component_recovery).
InRecoveryOf(s) == sup_cur > 0 /\ SupName = s /\ sup_pc \in {"increment", "delay", "sleep", "heal", "decrement"}

\* C9 (as stated): a strategy's attempt counter decreases only as the result
\* of a successful heal, and then by exactly one (it is never reset to zero),
\* and increases only on a failing check.
C9_DecreasesOnlyByHeal ==
    [][\A s \in Strategies :
          /\ attempts'[s] < attempts[s] =>
                /\ heal_op' = Op("decrement", s)
                /\ attempts'[s] = attempts[s] - 1
          /\ attempts'[s] > attempts[s] => heal_op' = Op("increment", s)
      ]_vars

\* C9 (amended): a strategy's attempt counter increases only inside the
\* supervisor's recovery attempt that follows a failing check of that strategy
\* (by exactly one when no reset interleaves); it decreases only by exactly
\* one, as the result of a successful heal, or to zero, by a passing check or
\* by manual_component_recovery; a successful heal never takes it below zero.
C9_CounterSteps ==
    [][\A s \in Strategies :
          /\ attempts'[s] >= 0
          /\ attempts'[s] < attempts[s] =>
                \/ heal_op' = Op("decrement", s) /\ attempts'[s] = attempts[s] - 1
                \/ heal_op' \in {Op("check_ok", s), Op("manual_reset", s)} /\ attempts'[s] = 0
          /\ attempts'[s] > attempts[s] =>
                /\ InRecoveryOf(s)
                /\ heal_op' \in {Op("increment", s), Op("decrement", s)}
          /\ (heal_op' = Op("increment", s) /\ attempts[s] = sup_read) =>
                attempts'[s] = attempts[s] + 1
          /\ (heal_op' = Op("decrement", s) /\ attempts[s] = sup_read) =>
                attempts'[s] = Max(0, attempts[s] - 1)
      ]_vars

\* C9 (witness): a successful heal has just taken a counter from 3 to 2: the
\* earlier failures are remembered.
C9_Witness ==
    /\ heal_op.kind = "decrement"
    /\ attempts[heal_op.name] = 2

\* C10 (as stated): once a counter exceeds max_attempts it comes back within
\* max_attempts (auto-retry resumes) only through the external reset of
\* manual_component_recovery: nothing the supervisor loop does re-enables it.
C10_OnlyExternalReset ==
    [][\A s \in Strategies :
          (attempts[s] > max_attempts(s) /\ attempts'[s] <= max_attempts(s)) =>
              heal_op' = Op("manual_reset", s)
      ]_vars

\* C10 (amended): while a strategy's counter exceeds max_attempts, a recovery
\* attempt of the supervisor raises the manual-intervention alert (sent when a
\* notification manager is set) and does not invoke the heal action; the
\* supervisor invokes heal only with the counter within max_attempts; and the counter comes back within max_attempts only
\* by a reset to zero, which manual_component_recovery does and which the
\* supervisor loop itself does when the strategy's check passes.
C10_SuspendedWhileAboveMax ==
    [][\A s \in Strategies :
          /\ heal_op' = Op("heal_start", s) => attempts[s] <= max_attempts(s)
          /\ (sup_pc = "sleep" /\ SupName = s /\ attempts[s] > max_attempts(s)
                /\ sup_pc' # "sleep") =>
                /\ heal_op' = Op("persistent_failure", s)
                /\ alert' \in {"manual_intervention", "unsent"}
          /\ (attempts[s] > max_attempts(s) /\ attempts'[s] <= max_attempts(s)) =>
                /\ attempts'[s] = 0
                /\ heal_op' \in {Op("manual_reset", s), Op("check_ok", s)}
      ]_vars

\* C10 (witness): a second failing cycle above max_attempts has just raised
\* the manual-intervention alert instead of healing.
C10_Witness ==
    /\ heal_op.kind = "persistent_failure"
    /\ alert = "manual_intervention"
    /\ attempts[heal_op.name] = max_attempts(heal_op.name) + 2

\* An alert about strategy s went out in the last step.
AlertSentAbout(s) == alert \in {"critical", "manual_intervention"} /\ heal_op.name = s

\* C11 (as stated): for every healing strategy, no alert is sent while its
\* attempt counter is below max_attempts, and a failed heal performed with
\* attempts == max_attempts sends a critical alert.
C11_AlertAtMaxAttempts ==
    [][\A s \in Strategies :
          /\ AlertSentAbout(s)' => attempts[s] >= max_attempts(s)
          /\ (heal_op' = Op("heal_failed", s) /\ attempts[s] = max_attempts(s)) =>
                alert' = "critical"
      ]_vars

\* C11 (amended): no alert about a strategy is sent while its attempt counter
\* is below max_attempts: the critical alert goes out only at a failed heal of
\* a strategy of severity "critical" whose counter equals max_attempts, the
\* manual-intervention alert only with the counter above max_attempts.  A
\* failed heal of a strategy of severity "critical" whose counter equals
\* max_attempts hands a critical alert to _send_critical_alert, which sends
\* it when a notification manager is set; a failed heal of a strategy of any
\* other severity ("system_health"), or with any other counter value, sends
\* nothing.
C11_CriticalAlertAtMaxAttempts ==
    [][\A s \in Strategies :
          /\ AlertSentAbout(s)' => attempts[s] >= max_attempts(s)
          /\ (AlertSentAbout(s)' /\ alert' = "critical") =>
                /\ heal_op' = Op("heal_failed", s)
                /\ severity(s) = "critical"
                /\ attempts[s] = max_attempts(s)
          /\ (AlertSentAbout(s)' /\ alert' = "manual_intervention") =>
                /\ heal_op' = Op("persistent_failure", s)
                /\ attempts[s] > max_attempts(s)
          /\ heal_op' = Op("heal_failed", s) =>
                IF severity(s) = "critical" /\ attempts[s] = max_attempts(s)
                THEN alert' \in {"critical", "unsent"}
                ELSE alert' = "none"
      ]_vars

\* C11 (witness): the fifth heal of the database connection in a row has
\* failed with the counter at max_attempts = 5 and the critical alert went out.
C11_Witness ==
    /\ heal_op = Op("heal_failed", "database_connection")
    /\ attempts["database_connection"] = max_attempts_database_connection
    /\ alert = "critical"

(***************************************************************************)
(* SpecBackoff: the supervisor loop from construction, its runs of failing *)
(* cycles followed (streak)                                                *)
(***************************************************************************)
InitBackoff ==
    /\ attempts = [s \in Strategies |-> 0]
    /\ sup_pc = "idle" /\ sup_cur = 0 /\ sup_read = 0
    /\ man_pc = "idle"
    /\ alert = "none"
    /\ heal_op = Op("init", "none")
    /\ delay = NoDelay
    /\ streak = [s \in Strategies |-> 0]
    /\ RiskIdle /\ GateIdle /\ SizeIdle /\ CorrIdle /\ SchedIdle /\ EngIdle /\ DispIdle
    /\ SwapIdle /\ LoopIdle /\ SigIdle /\ CalIdle
    /\ StartIdle
    /\ SweepIdle
    /\ StallIdle
    /\ ShedIdle
    /\ RestartIdle

NextBackoff ==
    \/ BeginCycle
    \/ CheckHealthy
    \/ CheckFails
    \/ IncrementWrite
    \/ ComputeDelay
    \/ HealStart
    \/ PersistentFailure
    \/ HealSucceeds
    \/ DecrementWrite
    \/ HealFails

SpecBackoff == InitBackoff /\ [][NextBackoff]_vars

\* C12: when a strategy's check has failed in n consecutive supervisor cycles
\* (counted from a zero counter: construction or a passing check) and every
\* heal of the run failed, the backoff delay slept in the n-th cycle is
\* initial_delay * backoff_factor^(n-1) (5, 10, 20 seconds for the database
\* connection, n = 1..3), and after the sleep heal is invoked exactly when
\* n <= max_attempts (the manual-intervention path is taken otherwise).
C12_BackoffDelay ==
    [][\A s \in Strategies :
          /\ (heal_op' = Op("sleep", s) /\ streak[s] >= 1) =>
                /\ delay'.d = 1
                /\ delay'.n = initial_delay(s) * Pow(backoff_factor, streak[s] - 1)
                /\ (s = "database_connection" /\ streak[s] <= 3) =>
                       delay'.n = <<5, 10, 20>>[streak[s]]
          /\ (sup_pc = "sleep" /\ SupName = s /\ streak[s] >= 1 /\ sup_pc' # "sleep") =>
                /\ heal_op' = Op("heal_start", s) <=> streak[s] <= max_attempts(s)
                /\ heal_op' = Op("persistent_failure", s) <=> streak[s] > max_attempts(s)
      ]_vars

\* C12 (witness): the database check has failed in three cycles in a row, the
\* two heals failed, and the third sleep, of 20 seconds, has begun.
C12_Witness ==
    /\ heal_op = Op("sleep", "database_connection")
    /\ streak["database_connection"] = 3
    /\ delay = [n |-> 20, d |-> 1]

(***************************************************************************)
(* Trading Engine (engine.py)                                              *)
(*                                                                         *)
(* class TradingEngine ends at line 288 and defines __init__,              *)
(* _verify_database_schema, run_trading_cycle, _process_user_strategies,   *)
(* _get_user_strategies and _process_strategy.  start, stop, pause,        *)
(* _trading_loop, _load_active_users, _initialize_user,                    *)
(* _close_exchange_connections, reset_engine, ... are defined at module    *)
(* level (column 0, lines 299-1093), taking the engine as the parameter    *)
(* `self`; resume is a def nested in pause after its last return           *)
(* statement.  An engine object therefore has none of them as attributes:  *)
(* `engine.start()` raises AttributeError, and so does every               *)
(* `self.<name>` inside the module-level functions that names another of   *)
(* them.  update_market_data, _initialize_user_strategies and              *)
(* _send_trade_notification are defined nowhere.  The module-level         *)
(* functions are modelled as they run when called with the engine.         *)
(***************************************************************************)
EngineUsers == {1, 2}
\* The lists the user lookup can return.
UserLists == {<<>>, <<1>>, <<1, 2>>}

user_refresh_interval == 300
max_consecutive_errors == 5
EngNow0 == 1000
EngClockStep == 300
EngMaxNow == 1300
\* How far the model lets the loop's error_count climb.
MaxErrorCount == 6

\* Attributes of a TradingEngine object that are callable methods.
EngineMethods ==
    {"__init__", "_verify_database_schema", "run_trading_cycle",
     "_process_user_strategies", "_get_user_strategies", "_process_strategy"}
\* Functions of the module engine.
ModuleFunctions ==
    {"start", "stop", "pause", "_trading_loop", "_load_active_users",
     "_get_active_users_fallback", "_initialize_user", "_close_exchange_connections",
     "_process_signal", "_record_trade", "evaluate_strategies",
     "_get_strategy_performance_metrics", "check_risk_exposure",
     "_calculate_max_drawdown_risk", "get_status", "_get_last_error", "reset_engine",
     "monitor_positions"}
\* The lifecycle operations invoked on the engine object: start and stop by
\* main.py, app.py and self_healing.py, resume by whoever has paused.
LifecycleCalls == {"start", "stop", "resume"}

\* getattr(engine, name) succeeds
has_attribute(name) == name \in EngineMethods

EngOp(op, result, users) == [op |-> op, result |-> result, users |-> users]

\* The cached list is dropped on a failed refresh.
cached_or_empty_dropped(cache) == <<>>

\* return self.active_users_cache or []
cached_or_empty(cache) == cache

\* reset_engine leaves a status of its own.
health_after_reset_marked(is_running, health) == "reset"

\* reset_engine: if self.running: self.health_status = "running"
health_after_reset(is_running, health) == IF is_running THEN "running" ELSE health

\* An empty list replaces the cache like any other.
keeps_cache_never(active_users, cache) == FALSE

\* if not active_users and self.active_users_cache
keeps_cache(active_users, cache) == active_users = <<>> /\ cache # <<>>

\* _load_active_users(engine) with the configured user repository; lookup is
\* what user_repository.get_active_users() does: "raises" (any error),
\* "raises_schema" (the missing-column error) or "returns" the list users.
load_active_users(cache, last, t, lookup, users) ==
    LET failed == [ret |-> cached_or_empty(cache), cache |-> cache, last |-> last,
                   result |-> "lookup_failed"]
        \* lines 505-519 with the list active_users the lookup produced; a
        \* new user's self._initialize_user raises AttributeError, caught at
        \* line 521, and the new cache is returned
        store(active_users) ==
            IF keeps_cache(active_users, cache)
            THEN [ret |-> cache, cache |-> cache, last |-> last, result |-> "lookup_empty"]
            ELSE [ret |-> cached_or_empty(active_users), cache |-> active_users,
                  last |-> t, result |-> "refreshed"]
    IN  IF t - last < user_refresh_interval /\ cache # <<>>
        THEN [ret |-> cache, cache |-> cache, last |-> last, result |-> "cached"]
        ELSE IF lookup = "raises" THEN failed
        ELSE IF lookup = "raises_schema"
        THEN \* self._get_active_users_fallback() inside the handler
             IF has_attribute("_get_active_users_fallback") THEN store(users) ELSE failed
        ELSE store(users)

Lookups == {"raises", "raises_schema", "returns"}
\* What re-establishing one binding in reset_engine comes to.
ResetOutcomes == {"reconnected", "init_failed", "no_keys"}
\* What _initialize_user(engine, user) comes to before it stores the exchange.
InitOutcomes == {"stored", "not_created"}

\* Called as a method of the engine object (main.py:718, app.py:305,
\* self_healing.py:468): the attribute lookup raises AttributeError.
MethodCall(name) ==
    /\ ~has_attribute(name)
    /\ eng_op' = EngOp(name, "no_such_method", <<>>)
    /\ UNCHANGED <<eng_running, eng_paused, health_status, trading_thread, user_exchange_map,
                   active_users_cache, last_user_refresh, eng_now, loop_pc, error_count, nonEng>>

\* start(engine), under self.lock: Thread(target=self._trading_loop) raises
\* AttributeError after running, paused and health_status were written.
EngStart ==
    /\ IF eng_running
       THEN /\ eng_op' = EngOp("start", "False", <<>>)
            /\ UNCHANGED <<eng_running, eng_paused, health_status, trading_thread>>
       ELSE /\ eng_running' = TRUE
            /\ eng_paused' = FALSE
            /\ IF has_attribute("_trading_loop")
               THEN /\ trading_thread' = "alive"
                    /\ health_status' = "running"
                    /\ eng_op' = EngOp("start", "True", <<>>)
               ELSE /\ trading_thread' = trading_thread
                    /\ health_status' = "starting"
                    /\ eng_op' = EngOp("start", "AttributeError", <<>>)
    /\ UNCHANGED <<user_exchange_map, active_users_cache, last_user_refresh, eng_now,
                   loop_pc, error_count, nonEng>>

\* stop(engine), under self.lock: trading_thread is None, so nothing is
\* joined; self._close_exchange_connections() raises AttributeError.
EngStop ==
    /\ IF ~eng_running
       THEN /\ eng_op' = EngOp("stop", "False", <<>>)
            /\ UNCHANGED <<eng_running, health_status, user_exchange_map>>
       ELSE /\ eng_running' = FALSE
            /\ IF has_attribute("_close_exchange_connections")
               THEN /\ user_exchange_map' = EmptyMap
                    /\ health_status' = "stopped"
                    /\ eng_op' = EngOp("stop", "True", <<>>)
               ELSE /\ user_exchange_map' = user_exchange_map
                    /\ health_status' = "stopping"
                    /\ eng_op' = EngOp("stop", "AttributeError", <<>>)
    /\ UNCHANGED <<eng_paused, trading_thread, active_users_cache, last_user_refresh,
                   eng_now, loop_pc, error_count, nonEng>>

\* pause(engine), under self.lock.
EngPause ==
    /\ IF eng_running /\ ~eng_paused
       THEN /\ eng_paused' = TRUE
            /\ health_status' = "paused"
            /\ eng_op' = EngOp("pause", "True", <<>>)
       ELSE /\ eng_op' = EngOp("pause", "False", <<>>)
            /\ UNCHANGED <<eng_paused, health_status>>
    /\ UNCHANGED <<eng_running, trading_thread, user_exchange_map, active_users_cache,
                   last_user_refresh, eng_now, loop_pc, error_count, nonEng>>

\* reset_engine(engine), under self.lock: caches and timestamps cleared,
\* every binding re-established (the old exchange is closed once keys and
\* factory are there; the entry is replaced only if the new one initializes).
ResetEngine(outcome) ==
    /\ active_users_cache' = <<>>
    /\ last_user_refresh' = 0
    /\ user_exchange_map' =
          [u \in DOMAIN user_exchange_map |->
              IF outcome[u] = "reconnected" THEN "open"
              ELSE IF outcome[u] = "init_failed" THEN "closed"
              ELSE user_exchange_map[u]]
    /\ health_status' = health_after_reset(eng_running, health_status)
    /\ eng_op' = EngOp("reset_engine", "True", <<>>)
    /\ UNCHANGED <<eng_running, eng_paused, trading_thread, eng_now, loop_pc,
                   error_count, nonEng>>

\* _initialize_user(engine, user): once the exchange is created and
\* initialized it is stored in user_exchange_map; then
\* self._initialize_user_strategies raises AttributeError, which is caught:
\* the call returns False in every case (user_strategy_map is never filled,
\* so the early return of line 616 is never taken).
InitializeUser(u, outcome) ==
    /\ user_exchange_map' =
          IF outcome = "stored"
          THEN [v \in DOMAIN user_exchange_map \cup {u} |->
                   IF v = u THEN "open" ELSE user_exchange_map[v]]
          ELSE user_exchange_map
    /\ eng_op' = EngOp("_initialize_user", "False", <<u>>)
    /\ UNCHANGED <<eng_running, eng_paused, health_status, trading_thread,
                   active_users_cache, last_user_refresh, eng_now, loop_pc,
                   error_count, nonEng>>

\* _load_active_users(engine)
LoadActiveUsers(lookup, users) ==
    LET r == load_active_users(active_users_cache, last_user_refresh, eng_now, lookup, users)
    IN  /\ active_users_cache' = r.cache
        /\ last_user_refresh' = r.last
        /\ eng_op' = EngOp("_load_active_users",
                           IF r.result = "lookup_failed" THEN lookup ELSE r.result, r.ret)
    /\ UNCHANGED <<eng_running, eng_paused, health_status, trading_thread,
                   user_exchange_map, eng_now, loop_pc, error_count, nonEng>>

\* engine.run_trading_cycle(): self._load_active_users() raises
\* AttributeError, which the method catches and logs; no user is processed.
RunTradingCycle ==
    /\ eng_op' = EngOp("run_trading_cycle",
                       IF has_attribute("_load_active_users") THEN "completed" ELSE "error_logged",
                       <<>>)
    /\ UNCHANGED <<eng_running, eng_paused, health_status, trading_thread, user_exchange_map,
                   active_users_cache, last_user_refresh, eng_now, loop_pc, error_count, nonEng>>

\* Time passes.
EngAdvance ==
    /\ eng_now + EngClockStep <= EngMaxNow
    /\ eng_now' = eng_now + EngClockStep
    /\ eng_op' = EngOp("advance", "none", <<>>)
    /\ UNCHANGED <<eng_running, eng_paused, health_status, trading_thread, user_exchange_map,
                   active_users_cache, last_user_refresh, loop_pc, error_count, nonEng>>

\* A thread begins to run _trading_loop(engine): error_count = 0.
LoopEnter ==
    /\ loop_pc = "none"
    /\ loop_pc' = "while"
    /\ error_count' = 0
    /\ eng_op' = EngOp("_trading_loop", "entered", <<>>)
    /\ UNCHANGED <<eng_running, eng_paused, health_status, trading_thread, user_exchange_map,
                   active_users_cache, last_user_refresh, eng_now, nonEng>>

\* while self.running and not self.shutdown_event.is_set(): the loop ends,
\* or sleeps a second because the engine is paused, or enters the body of
\* the iteration.
LoopTest ==
    /\ loop_pc = "while"
    /\ IF ~eng_running \/ eng_shutdown
       THEN loop_pc' = "none" /\ eng_op' = EngOp("_trading_loop", "exited", <<>>)
       ELSE IF eng_paused
       THEN loop_pc' = "while" /\ eng_op' = EngOp("iteration", "skipped", <<>>)
       ELSE loop_pc' = "body" /\ eng_op' = EngOp("iteration", "begun", <<>>)
    /\ UNCHANGED <<eng_running, eng_paused, health_status, trading_thread, user_exchange_map,
                   active_users_cache, last_user_refresh, eng_now, error_count, nonEng>>

\* The body of an iteration: current_time - last_market_update (a local that
\* is still 0) exceeds market_update_interval, and self.update_market_data()
\* raises AttributeError before the users are loaded.  The handler counts the
\* error, sleeps the backoff and marks the engine degraded from
\* max_consecutive_errors on.
LoopBody ==
    /\ loop_pc = "body"
    /\ error_count < MaxErrorCount
    /\ error_count' = error_count + 1
    /\ health_status' = IF error_count + 1 >= max_consecutive_errors
                        THEN "degraded" ELSE health_status
    /\ loop_pc' = "while"
    /\ eng_op' = EngOp("iteration", "AttributeError", <<>>)
    /\ UNCHANGED <<eng_running, eng_paused, trading_thread, user_exchange_map,
                   active_users_cache, last_user_refresh, eng_now, nonEng>>

\* TradingEngine.__init__
InitEngine ==
    /\ eng_running = FALSE /\ eng_paused = FALSE
    /\ health_status = "initializing"
    /\ trading_thread = "none"
    /\ user_exchange_map = EmptyMap
    /\ active_users_cache = <<>> /\ last_user_refresh = 0
    /\ eng_now = EngNow0
    /\ loop_pc = "none" /\ error_count = 0
    /\ eng_op = EngOp("__init__", "none", <<>>)
    /\ RiskIdle /\ GateIdle /\ SizeIdle /\ CorrIdle /\ SchedIdle /\ HealIdle /\ DispIdle
    /\ SwapIdle /\ LoopIdle /\ SigIdle /\ CalIdle
    /\ StartIdle
    /\ SweepIdle
    /\ StallIdle
    /\ ShedIdle
    /\ RestartIdle

NextEngine ==
    \/ \E name \in LifecycleCalls : MethodCall(name)
    \/ EngStart
    \/ EngStop
    \/ EngPause
    \/ \E outcome \in [EngineUsers -> ResetOutcomes] : ResetEngine(outcome)
    \/ \E u \in EngineUsers, outcome \in InitOutcomes : InitializeUser(u, outcome)
    \/ \E lookup \in Lookups, users \in UserLists : LoadActiveUsers(lookup, users)
    \/ RunTradingCycle
    \/ EngAdvance
    \/ LoopEnter
    \/ LoopTest
    \/ LoopBody

SpecEngine == InitEngine /\ [][NextEngine]_vars

\* C13: stop() on a running engine returns True with every exchange binding
\* closed and removed (after the loop worker has exited) and health
\* "stopped".
C13_StopClosesBindings ==
    [][(eng_op'.op = "stop" /\ eng_running) =>
          /\ eng_op'.result = "True"
          /\ user_exchange_map' = EmptyMap
          /\ health_status' = "stopped"
      ]_vars

\* C14: start() on a running engine returns False and changes nothing, and a
\* start() on an engine that is not running spawns the loop worker, so that
\* after any sequence of start() calls a running engine has exactly one
\* worker.
C14_StartIdempotent ==
    [][eng_op'.op = "start" =>
          IF eng_running
          THEN /\ eng_op'.result = "False"
               /\ UNCHANGED <<eng_running, eng_paused, health_status, trading_thread>>
          ELSE /\ eng_op'.result = "True"
               /\ eng_running'
               /\ trading_thread' = "alive"
      ]_vars

\* C15: pause() and resume() leave the exchange-binding map as it is, no
\* iteration that begins while the engine is paused processes a user, and
\* resume() on a paused engine makes iterations process users again, with
\* health "running".
C15_PauseResume ==
    [][/\ eng_op'.op \in {"pause", "resume"} => user_exchange_map' = user_exchange_map
       /\ (eng_op'.op = "iteration" /\ eng_paused) => eng_op'.result = "skipped"
       /\ (eng_op'.op = "resume" /\ eng_running /\ eng_paused) =>
             /\ eng_op'.result = "True"
             /\ ~eng_paused'
             /\ health_status' = "running"
      ]_vars

\* C16 (as stated): in every reachable state of the engine, from construction
\* onward, the health status is one of stopped, starting, running, paused,
\* degraded, stopping.
C16_HealthStatusOfSix ==
    health_status \in {"stopped", "starting", "running", "paused", "degraded", "stopping"}

\* C16 (amended): in every reachable state of the engine the health status is
\* "initializing" (the value the constructor sets, kept until the first
\* lifecycle operation) or one of stopped, starting, running, paused,
\* degraded, stopping.
C16_HealthStatusDomain ==
    health_status \in {"initializing", "stopped", "starting", "running", "paused",
                       "degraded", "stopping"}

\* C16 (witness): the loop has marked a running engine degraded and
\* reset_engine has then put the status back to "running".
C16_Witness ==
    /\ eng_op.op = "reset_engine"
    /\ health_status = "running"
    /\ error_count >= max_consecutive_errors

\* C17: when the refresh of the active-user list fails because the user
\* lookup raises, _load_active_users returns the list cached before and
\* leaves the cache and its refresh time unchanged; and whatever the lookup
\* does, the call returns a non-empty list whenever a non-empty list was
\* cached.
C17_StaleCacheFallback ==
    [][eng_op'.op = "_load_active_users" =>
          /\ eng_op'.result \in {"raises", "raises_schema"} =>
                /\ eng_op'.users = active_users_cache
                /\ active_users_cache' = active_users_cache
                /\ last_user_refresh' = last_user_refresh
          /\ active_users_cache # <<>> =>
                /\ eng_op'.users # <<>>
                /\ active_users_cache' # <<>>
      ]_vars

\* C17 (witness): the cache had gone stale, the lookup raised, and the cached
\* two users were returned.
C17_Witness ==
    /\ eng_op = EngOp("_load_active_users", "raises", <<1, 2>>)
    /\ active_users_cache = <<1, 2>>
    /\ eng_now - last_user_refresh >= user_refresh_interval

\* C37: every exchange binding stored in user_exchange_map is open; no
\* operation leaves in the map a binding that it has closed.
C37_BindingsOpen ==
    \A u \in DOMAIN user_exchange_map : user_exchange_map[u] = "open"

\* C36: once the active-user cache is non-empty no refresh empties it: a
\* refresh whose lookup succeeds with an empty list returns the cached users
\* and leaves the cache and the refresh time unchanged, so that the refresh
\* is still due at the next call.
C36_EmptyRefreshKeepsCache ==
    [][eng_op'.op = "_load_active_users" =>
          /\ active_users_cache # <<>> => active_users_cache' # <<>>
          /\ eng_op'.result = "lookup_empty" =>
                /\ eng_op'.users = active_users_cache
                /\ active_users_cache' = active_users_cache
                /\ last_user_refresh' = last_user_refresh
                /\ eng_now' - last_user_refresh' >= user_refresh_interval
      ]_vars

\* C36 (witness): two users were cached, the cache had gone stale and the
\* lookup returned an empty list: the two users were returned.
C36_Witness ==
    /\ eng_op = EngOp("_load_active_users", "lookup_empty", <<1, 2>>)
    /\ active_users_cache = <<1, 2>>
    /\ eng_now - last_user_refresh >= user_refresh_interval

\* C18: every iteration of the loop that finds the engine not paused
\* completes having processed each user of the active-user list once, in
\* list order.
C18_EveryUserProcessed ==
    [][(eng_op'.op = "iteration" /\ loop_pc = "body") =>
          /\ eng_op'.result = "completed"
          /\ eng_op'.users = active_users_cache'
      ]_vars

(***************************************************************************)
(* SpecRegistry: the Scheduler's task registry under schedule, add_job,    *)
(* remove_task, pause_task and ticks                                       *)
(***************************************************************************)
RegistryIds == {"task_1", "task_2"}
\* f"task_{len(self.tasks) + 1}", for the registry sizes that generate an id
\* of RegistryIds.
GeneratedIds == <<"task_1", "task_2">>
RegistryFunctions == {"f", "g"}

\* run_at_time strings, as the fields str.split(':') cuts them into; NoTime
\* is None.
NoTime == <<>>
TimeStrings == {NoTime, <<"09", "30">>, <<"23", "00", "00">>, <<"9h30">>, <<"xx", "30">>}
\* int(field), for the fields int() accepts; it raises ValueError otherwise.
IntValue == [f \in {"00", "09", "23", "30"} |->
                IF f = "00" THEN 0 ELSE IF f = "09" THEN 9 ELSE IF f = "23" THEN 23 ELSE 30]

\* hour, minute = map(int, run_at_time.split(':')): ValueError unless there
\* are exactly two fields and both are integers.
parse_time(s) ==
    IF Len(s) = 2 /\ \A i \in 1..Len(s) : s[i] \in DOMAIN IntValue
    THEN [ok |-> TRUE, hour |-> IntValue[s[1]], minute |-> IntValue[s[2]]]
    ELSE [ok |-> FALSE, hour |-> 0, minute |-> 0]

\* The methods of class Scheduler.
SchedulerMethods ==
    {"__init__", "start", "stop", "_scheduler_loop", "_check_and_execute_tasks",
     "_should_run_task", "_execute_task", "schedule", "add_job", "remove_task",
     "pause_task", "resume_task", "pause_non_critical_tasks", "resume_all_tasks"}

\* schedule(task_func, interval_seconds, task_id, run_at_time, is_critical);
\* id "none" is task_id=None.  With a time that parses, self.add_daily_job
\* is looked up: Scheduler has no such method and the AttributeError leaves
\* the call (only ValueError and IndexError are caught).
Schedule(id, func, interval, run_at_time, is_critical) ==
    LET task_id == IF id = "none" THEN GeneratedIds[Cardinality(DOMAIN tasks) + 1] ELSE id
        time == parse_time(run_at_time)
        call(result) ==
            [op |-> "schedule", id |-> task_id, function |-> func, interval |-> interval,
             is_critical |-> is_critical, existed |-> task_id \in DOMAIN tasks,
             run_at_time |-> run_at_time, result |-> result]
    IN  /\ id = "none" => Cardinality(DOMAIN tasks) < Len(GeneratedIds)
        /\ IF run_at_time # NoTime
           THEN /\ tasks' = tasks
                /\ sched_call' = call(IF ~time.ok THEN "False"
                                      ELSE IF "add_daily_job" \in SchedulerMethods THEN "True"
                                      ELSE "AttributeError")
           ELSE /\ tasks' = store_task(tasks, task_id, new_task(func, interval, is_critical))
                /\ sched_call' = call("True")
        /\ sched_op' = "schedule"
        /\ UNCHANGED <<running, sched_now, dispatched, nonSched>>

NextRegistry ==
    \/ Start
    \/ Tick
    \/ \E id \in RegistryIds \cup {"none"}, f \in RegistryFunctions, t \in TimeStrings,
          c \in BOOLEAN : Schedule(id, f, ShortInterval, t, c)
    \/ \E id \in RegistryIds, f \in RegistryFunctions, c \in BOOLEAN :
          AddJob(id, f, ShortInterval, c)
    \/ \E id \in RegistryIds : RemoveTask(id)
    \/ \E id \in RegistryIds : PauseTask(id)

SpecRegistry == InitSched /\ [][NextRegistry]_vars

\* C19: schedule() with a time-of-day string "HH:MM" registers a daily task
\* with the parsed hour and minute under the given id and returns True;
\* without a time-of-day string it registers an interval task; with a string
\* that does not parse it returns False and leaves the registry unchanged.
C19_ScheduleRegisters ==
    [][sched_op' = "schedule" =>
          LET c == sched_call'
              time == parse_time(c.run_at_time)
          IN  IF c.run_at_time = NoTime
              THEN /\ c.result = "True"
                   /\ c.id \in DOMAIN tasks'
                   /\ tasks'[c.id].type = "interval"
              ELSE IF time.ok
              THEN /\ c.result = "True"
                   /\ c.id \in DOMAIN tasks'
                   /\ tasks'[c.id].type = "daily"
                   /\ tasks'[c.id].hour = time.hour
                   /\ tasks'[c.id].minute = time.minute
              ELSE /\ c.result = "False"
                   /\ tasks' = tasks
      ]_vars

Registered(c) == c.op \in {"add_job", "schedule"} /\ c.result = "True"

\* C20: the registry maps each id to at most one task.  A registration under
\* an id, new or existing, leaves under that id exactly the task just
\* registered (its function, interval and criticality, last_run = 0, not
\* paused), whatever the entry it replaces held, and changes no other entry;
\* remove_task deletes the entry of its id and no other.
C20_RegistrationReplaces ==
    [][LET c == sched_call'
       IN  /\ (sched_op' \in {"add_job", "schedule"} /\ Registered(c)) =>
                 /\ DOMAIN tasks' = DOMAIN tasks \cup {c.id}
                 /\ tasks'[c.id] = [function |-> c.function, type |-> "interval",
                                    interval |-> c.interval, last_run |-> 0,
                                    is_critical |-> c.is_critical, is_paused |-> FALSE]
                 /\ \A t \in DOMAIN tasks \ {c.id} : tasks'[t] = tasks[t]
           /\ sched_op' = "remove_task" =>
                 /\ DOMAIN tasks' = DOMAIN tasks \ {c.id}
                 /\ c.result = (IF c.id \in DOMAIN tasks THEN "True" ELSE "False")
                 /\ \A t \in DOMAIN tasks' : tasks'[t] = tasks[t]
      ]_vars

\* C20 (witness): add_job has just replaced the only entry of the registry
\* by a task with the function g; the entry has never run and the registry
\* still holds one task.
C20_Witness ==
    /\ sched_call.op = "add_job"
    /\ sched_call.existed
    /\ DOMAIN tasks = {sched_call.id}
    /\ tasks[sched_call.id].function = "g"
    /\ tasks[sched_call.id].last_run = 0

(***************************************************************************)
(* SpecDispatch: the scheduler thread, its pass over the registry and the  *)
(* worker threads it starts (core/scheduler.py)                            *)
(*                                                                         *)
(* The pass of _check_and_execute_tasks holds self.lock from the read of   *)
(* now to the last item, so no registry method runs while tick_pc is       *)
(* "pass" or "started".  A worker runs the task's function without the     *)
(* lock.  start() is taken after the previous loop thread has exited       *)
(* (stop() joins it).                                                      *)
(***************************************************************************)
\* Worker threads alive at the same time: as many as there are task ids.
MaxWorkers == Cardinality(TaskIds)
\* The last second of the wall clock under SpecDispatch.
DispMaxNow == 7
\* What a call of task['function'] can do.
TaskOutcomes == {"returned", "raised"}

\* The while condition of the loop fails after its first pass.
loop_continues_once(is_running, event_set) == FALSE

\* while self.running and not self.shutdown_event.is_set()
loop_continues(is_running, event_set) == is_running /\ ~event_set

lock_free == tick_pc \notin {"pass", "started"}

\* start(): spawns the thread running _scheduler_loop.
DispStart ==
    /\ ~running
    /\ scheduler_thread # "alive"
    /\ running' = TRUE
    /\ scheduler_thread' = "alive"
    /\ tick_pc' = "test"
    /\ sched_op' = "start"
    /\ sched_call' = NoCall
    /\ UNCHANGED <<tasks, sched_now, dispatched, shutdown_event, tick_now, tick_todo,
                   tick_cur, workers, nonDisp>>

\* stop(): clears the flag the loop tests.
DispStop ==
    /\ running
    /\ running' = FALSE
    /\ sched_op' = "stop"
    /\ sched_call' = NoCall
    /\ UNCHANGED <<tasks, sched_now, dispatched, dispVars, nonDisp>>

\* The application sets the shutdown event (app.py).
Shutdown ==
    /\ ~shutdown_event
    /\ shutdown_event' = TRUE
    /\ sched_op' = "shutdown"
    /\ sched_call' = NoCall
    /\ UNCHANGED <<running, tasks, sched_now, dispatched, scheduler_thread, tick_pc,
                   tick_now, tick_todo, tick_cur, workers, nonDisp>>

\* The wall clock moves on.
DispAdvance ==
    /\ sched_now < DispMaxNow
    /\ SchedAdvance
    /\ UNCHANGED dispVars

\* add_job / remove_task take self.lock.
DispAddJob(id, interval) == lock_free /\ AddJob(id, "f", interval, FALSE)
DispRemoveTask(id) == lock_free /\ RemoveTask(id)

\* _scheduler_loop: the while condition; when it holds the pass begins:
\* the lock is taken, now is read and the items are listed.
LoopCondition ==
    /\ tick_pc = "test"
    /\ IF loop_continues(running, shutdown_event)
       THEN /\ tick_pc' = "pass"
            /\ tick_now' = sched_now
            /\ tick_todo' = DOMAIN tasks
            /\ dispatched' = {}
            /\ sched_op' = "pass_begins"
            /\ UNCHANGED scheduler_thread
       ELSE /\ tick_pc' = "none"
            /\ scheduler_thread' = "exited"
            /\ sched_op' = "loop_exits"
            /\ UNCHANGED <<tick_now, tick_todo, dispatched>>
    /\ sched_call' = NoCall
    /\ UNCHANGED <<running, tasks, sched_now, shutdown_event, tick_cur, workers, nonDisp>>

\* _check_and_execute_tasks, one item that is not due.
PassSkips(t) ==
    /\ tick_pc = "pass"
    /\ t \in tick_todo
    /\ ~should_run_task(tasks[t], tick_now)
    /\ tick_todo' = tick_todo \ {t}
    /\ sched_op' = "skip"
    /\ sched_call' = NoCall
    /\ UNCHANGED <<running, tasks, sched_now, dispatched, scheduler_thread, shutdown_event,
                   tick_pc, tick_now, tick_cur, workers, nonDisp>>

\* _check_and_execute_tasks, one due item: task_thread.start().
PassStartsWorker(t) ==
    /\ tick_pc = "pass"
    /\ t \in tick_todo
    /\ should_run_task(tasks[t], tick_now)
    /\ Len(workers) < MaxWorkers
    /\ workers' = Append(workers, [id |-> t, recorded |-> FALSE, phase |-> "started"])
    /\ tick_cur' = t
    /\ tick_pc' = "started"
    /\ dispatched' = dispatched \cup {t}
    /\ sched_op' = "thread_start"
    /\ sched_call' = NoCall
    /\ UNCHANGED <<running, tasks, sched_now, scheduler_thread, shutdown_event, tick_now,
                   tick_todo, nonDisp>>

\* _check_and_execute_tasks, the same item: task['last_run'] = now.timestamp()
PassRecordsRun ==
    /\ tick_pc = "started"
    /\ tasks' = [tasks EXCEPT ![tick_cur].last_run = tick_now]
    /\ workers' = [i \in DOMAIN workers |-> [workers[i] EXCEPT !.recorded = TRUE]]
    /\ tick_todo' = tick_todo \ {tick_cur}
    /\ tick_cur' = "none"
    /\ tick_pc' = "pass"
    /\ sched_op' = "record_run"
    /\ sched_call' = NoCall
    /\ UNCHANGED <<running, sched_now, dispatched, scheduler_thread, shutdown_event,
                   tick_now, nonDisp>>

\* The pass is over: the lock is released and the loop sleeps.
PassEnds ==
    /\ tick_pc = "pass"
    /\ tick_todo = {}
    /\ tick_pc' = "sleep"
    /\ sched_op' = "tick"
    /\ sched_call' = NoCall
    /\ UNCHANGED <<running, tasks, sched_now, dispatched, scheduler_thread, shutdown_event,
                   tick_now, tick_todo, tick_cur, workers, nonDisp>>

\* time.sleep(1) returns.
SleepEnds ==
    /\ tick_pc = "sleep"
    /\ sched_now >= tick_now + 1
    /\ tick_pc' = "test"
    /\ sched_op' = "wake"
    /\ sched_call' = NoCall
    /\ UNCHANGED <<running, tasks, sched_now, dispatched, scheduler_thread, shutdown_event,
                   tick_now, tick_todo, tick_cur, workers, nonDisp>>

\* _execute_task in worker i: task['function'](*args, **kwargs) returns or
\* raises; an exception is caught and logged by the worker.
WorkerCalls(i, outcome) ==
    /\ i \in DOMAIN workers
    /\ workers[i].phase = "started"
    /\ workers' = [workers EXCEPT ![i].phase = outcome]
    /\ sched_op' = IF outcome = "raised" THEN "task_raised" ELSE "task_returned"
    /\ sched_call' = NoCall
    /\ UNCHANGED <<running, tasks, sched_now, dispatched, scheduler_thread, shutdown_event,
                   tick_pc, tick_now, tick_todo, tick_cur, nonDisp>>

\* _execute_task in worker i comes to its end: after a return it takes the
\* lock to note the duration, after an exception it returns None at once.
WorkerEnds(i) ==
    /\ i \in DOMAIN workers
    /\ workers[i].phase \in TaskOutcomes
    /\ workers[i].phase = "returned" => lock_free
    /\ workers' = [j \in 1..(Len(workers) - 1) |-> IF j < i THEN workers[j] ELSE workers[j + 1]]
    /\ sched_op' = "worker_ends"
    /\ sched_call' = NoCall
    /\ UNCHANGED <<running, tasks, sched_now, dispatched, scheduler_thread, shutdown_event,
                   tick_pc, tick_now, tick_todo, tick_cur, nonDisp>>

InitDispatch ==
    /\ running = FALSE
    /\ tasks = EmptyMap
    /\ sched_now = SchedNow0
    /\ dispatched = {}
    /\ sched_op = "init"
    /\ sched_call = NoCall
    /\ DispIdle
    /\ RiskIdle /\ GateIdle /\ SizeIdle /\ CorrIdle /\ HealIdle /\ EngIdle
    /\ SwapIdle /\ LoopIdle /\ SigIdle /\ CalIdle
    /\ StartIdle
    /\ SweepIdle
    /\ StallIdle
    /\ ShedIdle
    /\ RestartIdle

NextDispatch ==
    \/ DispStart
    \/ DispStop
    \/ Shutdown
    \/ DispAdvance
    \/ \E id \in TaskIds, i \in Intervals : DispAddJob(id, i)
    \/ \E id \in TaskIds : DispRemoveTask(id)
    \/ LoopCondition
    \/ \E t \in TaskIds : PassSkips(t)
    \/ \E t \in TaskIds : PassStartsWorker(t)
    \/ PassRecordsRun
    \/ PassEnds
    \/ SleepEnds
    \/ \E i \in 1..MaxWorkers, o \in TaskOutcomes : WorkerCalls(i, o)
    \/ \E i \in 1..MaxWorkers : WorkerEnds(i)

SpecDispatch == InitDispatch /\ [][NextDispatch]_vars

\* C21: an exception raised by a task's function stays in that task's
\* worker: the step in which it is raised changes neither the registry nor
\* the scheduler thread; the scheduler thread leaves its loop only when
\* running has been cleared or the shutdown event is set; and every pass,
\* whatever the workers of earlier dispatches did, starts a worker for each
\* task that is due (not paused, now - last_run >= interval) and for no
\* other task.
C21_TaskFailureContained ==
    [][/\ sched_op' = "task_raised" =>
             /\ tasks' = tasks
             /\ running' = running
             /\ scheduler_thread' = scheduler_thread
             /\ tick_pc' = tick_pc
       /\ (scheduler_thread = "alive" /\ scheduler_thread' # "alive") =>
             (~running \/ shutdown_event)
       /\ sched_op' = "tick" =>
             \A t \in DOMAIN tasks' :
                IF t \in dispatched'
                THEN tasks'[t].last_run = tick_now'
                ELSE \/ tasks'[t].is_paused
                     \/ tick_now' - tasks'[t].last_run < tasks'[t].interval
      ]_vars

\* C21 (witness): a pass has ended in which a task was dispatched again
\* while the worker of its previous dispatch, whose function raised, is
\* still there; the scheduler thread is alive.
C21_Witness ==
    /\ sched_op = "tick"
    /\ scheduler_thread = "alive"
    /\ Len(workers) = 2
    /\ workers[1].phase = "raised"
    /\ workers[2].phase = "started"
    /\ workers[1].id = workers[2].id
    /\ workers[2].id \in dispatched

\* C29: the pass sets a due task's last_run to its timestamp before the
\* task's worker starts executing, so a worker never calls the task's
\* function while last_run has not been set by the dispatching pass; and a
\* worker is started for a task only when the task is due, a worker still
\* running plays no part.
C29_LastRunSetBeforeWorkerRuns ==
    [][/\ sched_op' \in {"task_raised", "task_returned"} =>
             \A i \in DOMAIN workers :
                (workers[i].phase = "started" /\ workers'[i].phase # "started") =>
                    workers[i].recorded
       /\ sched_op' = "thread_start" =>
             /\ ~tasks[tick_cur'].is_paused
             /\ tick_now - tasks[tick_cur'].last_run >= tasks[tick_cur'].interval
      ]_vars

(***************************************************************************)
(* SpecSwap: the engine component of the Self-Healing Supervisor           *)
(* (self_healing.py: update_component, _check_trading_engine,              *)
(* _heal_trading_engine)                                                   *)
(*                                                                         *)
(* Engine instances are numbered from 1; 0 is None.  The supervisor keeps  *)
(* the component it is given in self.trading_engine; its check and its     *)
(* heal look at self.app.trading_engine.  A TradingEngine object has no    *)
(* attribute last_activity_time, stop or start.                            *)
(***************************************************************************)
\* Engine instances created in a run.
MaxInstances == 4
EngineInstances == 1..MaxInstances
\* supervisor.app is None or has no attribute trading_engine; no instance examined.
NoApp == 0 - 1
NoInstance == 0 - 1

SwapOp(op, examined, result) == [op |-> op, examined |-> examined, result |-> result]

\* update_component('trading_engine', component): stores the reference and
\* adds or deletes the strategy.
UpdateComponent(c) ==
    /\ c \in 0..instances
    /\ sh_trading_engine' = c
    /\ has_trading_engine' = (c # 0)
    /\ engine_strategy' = IF c # 0 /\ ~engine_strategy THEN TRUE
                          ELSE IF c = 0 /\ engine_strategy THEN FALSE
                          ELSE engine_strategy
    /\ installed' = c
    /\ swap_op' = SwapOp("update_component", c, "True")
    /\ UNCHANGED <<app_trading_engine, instances, nonSwap>>

\* The application creates an engine (app.py _init_trading_engine).
CreateEngine ==
    /\ instances < MaxInstances
    /\ instances' = instances + 1
    /\ swap_op' = SwapOp("create", instances + 1, "none")
    /\ UNCHANGED <<sh_trading_engine, has_trading_engine, engine_strategy,
                   app_trading_engine, installed, nonSwap>>

\* _run_healing_cycle reaches the strategy: strategy["check"]() is
\* _check_trading_engine.  Without an app attribute it returns False; else
\* it reads last_activity_time of the app's engine, which no engine has.
CheckTradingEngine ==
    /\ engine_strategy
    /\ has_trading_engine
    /\ swap_op' = IF app_trading_engine = NoApp
                  THEN SwapOp("check", NoInstance, "False")
                  ELSE SwapOp("check", app_trading_engine,
                              "True")
    /\ UNCHANGED <<sh_trading_engine, has_trading_engine, engine_strategy,
                   app_trading_engine, installed, instances, nonSwap>>

\* strategy["heal"]() is _heal_trading_engine, called by the recovery after
\* a failed check or by manual_component_recovery.  created says whether
\* TradingEngine(self.app.db) could be built.
HealTradingEngine(created) ==
    /\ engine_strategy
    /\ created => instances < MaxInstances
    /\ IF app_trading_engine = NoApp
       THEN /\ swap_op' = SwapOp("heal", NoInstance, "False")
            /\ UNCHANGED <<app_trading_engine, installed, instances>>
       ELSE IF created
       THEN /\ app_trading_engine' = instances + 1
            /\ instances' = instances + 1
            /\ installed' = instances + 1
            /\ swap_op' = SwapOp("heal", app_trading_engine,
                                 "True")
       ELSE /\ swap_op' = SwapOp("heal", app_trading_engine,
                                 "False")
            /\ UNCHANGED <<app_trading_engine, installed, instances>>
    /\ UNCHANGED <<sh_trading_engine, has_trading_engine, engine_strategy, nonSwap>>

\* SelfHealingSystem(app, trading_engine): no app (main.py, app.py), or an
\* app holding the engine the supervisor is given; the strategy is
\* configured when the engine is not None.
InitSwap ==
    /\ instances \in {0, 1}
    /\ sh_trading_engine = instances
    /\ has_trading_engine = (instances # 0)
    /\ engine_strategy = (instances # 0)
    /\ app_trading_engine \in {NoApp, instances}
    /\ installed = instances
    /\ swap_op = SwapOp("init", instances, "none")
    /\ RiskIdle /\ GateIdle /\ SizeIdle /\ CorrIdle /\ SchedIdle /\ HealIdle /\ EngIdle
    /\ DispIdle /\ LoopIdle /\ SigIdle /\ CalIdle
    /\ StartIdle
    /\ SweepIdle
    /\ StallIdle
    /\ ShedIdle
    /\ RestartIdle

NextSwap ==
    \/ \E c \in 0..MaxInstances : UpdateComponent(c)
    \/ CreateEngine
    \/ CheckTradingEngine
    \/ \E created \in BOOLEAN : HealTradingEngine(created)

SpecSwap == InitSwap /\ [][NextSwap]_vars

\* C22: after any sequence of update_component('trading_engine', c) calls
\* and heals, the trading_engine strategy is registered if and only if the
\* supervisor's engine component is not None, and every check and every heal
\* looks at the engine instance installed last.
C22_NoStaleEngine ==
    /\ engine_strategy <=> (sh_trading_engine # 0)
    /\ swap_op.op = "check" => swap_op.examined = installed
    /\ (swap_op.op = "heal" /\ swap_op.result = "False") => swap_op.examined = installed

(***************************************************************************)
(* SpecLoop: the error handler of _trading_loop (engine.py), step by step  *)
(*                                                                         *)
(* Every iteration that is not paused raises AttributeError at             *)
(* self.update_market_data().  The handler counts the error, computes      *)
(* backoff_time, sleeps it, and then marks the engine degraded.            *)
(***************************************************************************)
\* How far the model lets the loop's error_count climb under SpecLoop.
MaxLoopErrors == 1026
error_backoff_time == 5
max_backoff_time == 60
\* sys.float_info.max_exp: 2 ** e converts to a float only for e < 1024.
float_max_exp == 1024
\* From this exponent on the product is taken to be above every cap the
\* model uses (TLC's integers have 32 bits).
LargeExponent == 20
OverflowError == 0 - 1

Min(a, b) == IF a <= b THEN a ELSE b

\* min(self.error_backoff_time * (2 ** (error_count - 1)), 60): 2 ** e is an
\* int, and its product with the float 5.0 converts it to a float, which
\* raises OverflowError when the int is 2 ** 1024 or more.
backoff_time_of(count) ==
    LET e == count - 1
    IN  IF e >= float_max_exp THEN OverflowError
        ELSE IF e >= LargeExponent THEN max_backoff_time
        ELSE Min(error_backoff_time * Pow(2, e), max_backoff_time)

\* The except clause of the iteration: error_count += 1, the error is
\* logged, backoff_time is computed and time.sleep(backoff_time) begins; an
\* OverflowError raised by the computation leaves the handler and ends the
\* thread.
IterationFails ==
    /\ loop_pc = "body"
    /\ error_count < MaxLoopErrors
    /\ error_count' = error_count + 1
    /\ IF backoff_time_of(error_count + 1) = OverflowError
       THEN /\ loop_pc' = "dead"
            /\ backoff_time' = 0
            /\ eng_op' = EngOp("iteration", "OverflowError", <<>>)
       ELSE /\ loop_pc' = "backoff"
            /\ backoff_time' = backoff_time_of(error_count + 1)
            /\ eng_op' = EngOp("iteration", "AttributeError", <<>>)
    /\ UNCHANGED <<eng_running, eng_paused, health_status, trading_thread, user_exchange_map,
                   active_users_cache, last_user_refresh, eng_now, eng_shutdown, nonLoop>>

\* The sleep is over: if error_count >= self.max_consecutive_errors the
\* health status becomes "degraded"; the loop goes back to its condition.
BackoffEnds ==
    /\ loop_pc = "backoff"
    /\ health_status' = IF error_count >= max_consecutive_errors
                        THEN "degraded" ELSE health_status
    /\ backoff_time' = 0
    /\ loop_pc' = "while"
    /\ eng_op' = EngOp("iteration", "slept", <<>>)
    /\ UNCHANGED <<eng_running, eng_paused, trading_thread, user_exchange_map,
                   active_users_cache, last_user_refresh, eng_now, error_count,
                   eng_shutdown, nonLoop>>

\* The application sets the shutdown event.
EngShutdown ==
    /\ ~eng_shutdown
    /\ eng_shutdown' = TRUE
    /\ eng_op' = EngOp("shutdown", "none", <<>>)
    /\ UNCHANGED <<eng_running, eng_paused, health_status, trading_thread, user_exchange_map,
                   active_users_cache, last_user_refresh, eng_now, loop_pc, error_count,
                   backoff_time, nonLoop>>

InitLoop ==
    /\ eng_running = FALSE /\ eng_paused = FALSE
    /\ health_status = "initializing"
    /\ trading_thread = "none"
    /\ user_exchange_map = EmptyMap
    /\ active_users_cache = <<>> /\ last_user_refresh = 0
    /\ eng_now = EngNow0
    /\ loop_pc = "none" /\ error_count = 0
    /\ eng_op = EngOp("__init__", "none", <<>>)
    /\ LoopIdle /\ SigIdle /\ CalIdle
    /\ RiskIdle /\ GateIdle /\ SizeIdle /\ CorrIdle /\ SchedIdle /\ HealIdle /\ DispIdle
    /\ SwapIdle
    /\ StartIdle
    /\ SweepIdle
    /\ StallIdle
    /\ ShedIdle
    /\ RestartIdle

NextLoop ==
    \/ EngStart
    \/ EngStop
    \/ EngPause
    \/ EngShutdown
    \/ \E outcome \in [EngineUsers -> {"no_keys"}] : ResetEngine(outcome)
    \/ LoopEnter
    \/ LoopTest
    \/ IterationFails
    \/ BackoffEnds

SpecLoop == InitLoop /\ [][NextLoop]_vars

\* C24: reset_engine() clears the active-user cache and its timestamp and
\* the error counters, the loop's consecutive-error counter included, and
\* changes neither the running and paused flags nor the loop worker.
C24_ResetClearsCounters ==
    [][eng_op'.op = "reset_engine" =>
          /\ active_users_cache' = <<>>
          /\ last_user_refresh' = 0
          /\ error_count' = 0
          /\ eng_running' = eng_running
          /\ eng_paused' = eng_paused
          /\ loop_pc' = loop_pc
          /\ trading_thread' = trading_thread
      ]_vars

\* The backoff the k-th failing iteration in a row sleeps, as documented.
C27_Backoff(k) == IF k <= 5 THEN <<5, 10, 20, 40, 60>>[k] ELSE 60

\* C27: each iteration that ends in an exception adds one to the
\* consecutive-error counter, and after the k-th failing iteration in a row
\* the loop sleeps min(5 * 2^(k-1), 60) seconds (5, 10, 20, 40, 60, 60, ...);
\* an iteration without an error sets the counter to zero.
C27_LoopBackoff ==
    [][/\ (eng_op'.op = "iteration" /\ eng_op'.result \in {"AttributeError", "OverflowError"}) =>
             /\ error_count' = error_count + 1
             /\ loop_pc' = "backoff"
             /\ backoff_time' = C27_Backoff(error_count')
       /\ (eng_op'.op = "iteration" /\ eng_op'.result = "completed") => error_count' = 0
      ]_vars

\* C28: the loop sets the health status to "degraded" when and only when the
\* consecutive-error counter is at least 5, and the loop worker ends only
\* when running has been cleared or the shutdown event is set.
C28_DegradedKeepsLooping ==
    [][/\ (eng_op'.op = "iteration" /\ health_status' # health_status) =>
             (health_status' = "degraded" /\ error_count' >= max_consecutive_errors)
       /\ (eng_op'.op = "iteration" /\ eng_op'.result = "slept"
             /\ error_count' >= max_consecutive_errors) => health_status' = "degraded"
       /\ (loop_pc \in {"while", "body", "backoff"} /\ loop_pc' \in {"none", "dead"}) =>
             (~eng_running \/ eng_shutdown)
      ]_vars

\* C35: once the loop has set health to "degraded", an iteration without an
\* error sets the consecutive-error counter to zero but leaves the health
\* status alone, and the status leaves "degraded" only through pause(),
\* reset_engine() or stop().
C35_DegradedIsSticky ==
    [][/\ (health_status = "degraded" /\ health_status' # "degraded") =>
             eng_op'.op \in {"pause", "reset_engine", "stop"}
       /\ (eng_op'.op = "iteration" /\ eng_op'.result = "completed") =>
             (error_count' = 0 /\ health_status' = health_status)
      ]_vars

(***************************************************************************)
(* SpecSignal: one signal through _process_signal (engine.py)              *)
(*                                                                         *)
(* TradingEngine._process_strategy calls self._process_signal, which is a  *)
(* function of the module and no attribute of the engine.  The function    *)
(* is modelled as it runs when called with the engine; the risk manager    *)
(* and the exchange are collaborators whose answers are inputs.            *)
(***************************************************************************)
MaxSignals == 3
Signals == 1..MaxSignals
\* self.risk_manager.validate_signal(user, signal): a signal, None, or an
\* exception.
GateOutcomes == {"returned", "rejected", "raised"}
\* exchange.execute_trade(validated_signal): a result, a false value, or an
\* exception.
ExecOutcomes == {"ok", "failed", "raised"}

SigOp(op, signal, result) == [op |-> op, signal |-> signal, result |-> result]

\* engine._process_strategy(user, exchange, strategy) with the signals the
\* strategy generated: the first self._process_signal raises AttributeError,
\* which the method catches and logs.
ProcessStrategy(n) ==
    /\ sig_pc = "idle"
    /\ sig_op' = SigOp("_process_strategy", n,
                       IF n = 0 THEN "no_signals"
                       ELSE IF has_attribute("_process_signal") THEN "processed"
                       ELSE "AttributeError")
    /\ UNCHANGED <<sig_pc, sig_cur, accepted, executed, recorded, notified, nonSig>>

\* _process_signal(engine, user, exchange, strategy, signal) begins; without
\* a risk manager it returns False.
SignalBegins(sg, has_risk_manager) ==
    /\ sig_pc = "idle"
    /\ IF has_risk_manager
       THEN /\ sig_pc' = "validate" /\ sig_cur' = sg
            /\ sig_op' = SigOp("begin", sg, "none")
       ELSE /\ sig_op' = SigOp("return", sg, "False")
            /\ UNCHANGED <<sig_pc, sig_cur>>
    /\ UNCHANGED <<accepted, executed, recorded, notified, nonSig>>

\* validated_signal = self.risk_manager.validate_signal(user, signal)
SignalValidated(outcome) ==
    /\ sig_pc = "validate"
    /\ IF outcome = "returned"
       THEN /\ accepted' = accepted \cup {sig_cur}
            /\ sig_pc' = "execute"
            /\ sig_op' = SigOp("validate", sig_cur, outcome)
            /\ UNCHANGED sig_cur
       ELSE /\ sig_pc' = "idle" /\ sig_cur' = 0
            /\ sig_op' = SigOp("return", sig_cur, "False")
            /\ UNCHANGED accepted
    /\ UNCHANGED <<executed, recorded, notified, nonSig>>

\* trade_result = exchange.execute_trade(validated_signal)
SignalExecuted(outcome) ==
    /\ sig_pc = "execute"
    /\ IF outcome = "ok"
       THEN /\ executed' = executed \cup {sig_cur}
            /\ sig_pc' = "record"
            /\ sig_op' = SigOp("execute", sig_cur, outcome)
            /\ UNCHANGED sig_cur
       ELSE /\ sig_pc' = "idle" /\ sig_cur' = 0
            /\ sig_op' = SigOp("return", sig_cur, "False")
            /\ UNCHANGED executed
    /\ UNCHANGED <<accepted, recorded, notified, nonSig>>

\* self._record_trade(...) and self._send_trade_notification(...): the
\* first attribute lookup raises AttributeError, which _process_signal
\* catches: it returns False.
SignalRecorded ==
    /\ sig_pc = "record"
    /\ IF has_attribute("_record_trade")
       THEN /\ recorded' = recorded \cup {sig_cur}
            /\ IF has_attribute("_send_trade_notification")
               THEN /\ notified' = notified \cup {sig_cur}
                    /\ sig_op' = SigOp("return", sig_cur, "True")
               ELSE /\ sig_op' = SigOp("return", sig_cur, "False")
                    /\ UNCHANGED notified
       ELSE /\ sig_op' = SigOp("return", sig_cur, "False")
            /\ UNCHANGED <<recorded, notified>>
    /\ sig_pc' = "idle" /\ sig_cur' = 0
    /\ UNCHANGED <<accepted, executed, nonSig>>

InitSignal ==
    /\ sig_pc = "idle" /\ sig_cur = 0
    /\ accepted = {} /\ executed = {} /\ recorded = {} /\ notified = {}
    /\ sig_op = SigOp("init", 0, "none")
    /\ RiskIdle /\ GateIdle /\ SizeIdle /\ CorrIdle /\ SchedIdle /\ HealIdle /\ EngIdle
    /\ DispIdle /\ SwapIdle /\ LoopIdle /\ CalIdle
    /\ StartIdle
    /\ SweepIdle
    /\ StallIdle
    /\ ShedIdle
    /\ RestartIdle

NextSignal ==
    \/ \E n \in 0..MaxSignals : ProcessStrategy(n)
    \/ \E sg \in Signals, has_risk_manager \in BOOLEAN : SignalBegins(sg, has_risk_manager)
    \/ \E outcome \in GateOutcomes : SignalValidated(outcome)
    \/ \E outcome \in ExecOutcomes : SignalExecuted(outcome)
    \/ SignalRecorded

SpecSignal == InitSignal /\ [][NextSignal]_vars

\* C26: for every signal the steps happen in the order validate, execute,
\* record, notify: only a signal the Risk Gate returned is executed, a trade
\* is recorded and a notification enqueued only after the exchange executed
\* it, and a signal the exchange has executed leaves _process_signal
\* recorded and notified.
C26_ValidateExecuteRecordNotify ==
    /\ executed \subseteq accepted
    /\ recorded \subseteq executed
    /\ notified \subseteq recorded
    /\ (sig_op.op = "return" /\ sig_op.signal \in executed) =>
          (sig_op.signal \in recorded /\ sig_op.signal \in notified)

(***************************************************************************)
(* SpecDaily: a daily, weekly or monthly task under the scheduler's ticks  *)
(*                                                                         *)
(* The clock counts ticks of 1/TicksPerSecond seconds since midnight of    *)
(* one day.  Each pass of _scheduler_loop reads datetime.now() once, asks  *)
(* _should_run_task and sleeps one second; between the end of the sleep    *)
(* and the reading of the clock up to MaxLatency clock ticks pass.         *)
(***************************************************************************)
TicksPerSecond == 2
MaxLatency == 1
\* The calendar minute the task is configured for.
CalHour == 9
CalMinute == 30
\* The day the model runs through: now.weekday() and now.day.
TodayWeekday == 2
TodayDay == 4
\* Seconds of the day the model covers before and after the minute.
LeadSeconds == 2
TrailSeconds == 1
NotStarted == 0 - 1

MinuteStart == (CalHour * 60 + CalMinute) * 60 * TicksPerSecond
MinuteEnd == MinuteStart + 60 * TicksPerSecond
CalNow0 == MinuteStart - LeadSeconds * TicksPerSecond
CalMaxNow == MinuteEnd + TrailSeconds * TicksPerSecond

\* datetime.now(): the calendar fields of a clock reading.
datetime_of(t) ==
    [weekday |-> TodayWeekday, day |-> TodayDay,
     hour |-> (t \div (3600 * TicksPerSecond)) % 24,
     minute |-> (t \div (60 * TicksPerSecond)) % 60,
     second |-> (t \div TicksPerSecond) % 60]

\* The entries of self.tasks _should_run_task reads the calendar fields of.
CalendarTasks ==
    { [type |-> ty, hour |-> CalHour, minute |-> CalMinute,
       day_of_week |-> dw, day |-> TodayDay, is_paused |-> p] :
         ty \in {"daily", "weekly", "monthly"},
         dw \in {TodayWeekday, TodayWeekday + 1}, p \in BOOLEAN }

\* _should_run_task(task, now) for the types 'daily', 'weekly', 'monthly'.
should_run_calendar_task(task, at) ==
    IF task.is_paused THEN FALSE
    ELSE IF task.type = "daily"
         THEN at.hour = task.hour /\ at.minute = task.minute /\ at.second < 1
    ELSE IF task.type = "weekly"
         THEN /\ at.weekday = task.day_of_week
              /\ at.hour = task.hour /\ at.minute = task.minute /\ at.second < 1
    ELSE IF task.type = "monthly"
         THEN /\ at.day = task.day
              /\ at.hour = task.hour /\ at.minute = task.minute /\ at.second < 1
    ELSE FALSE

\* The configured minute of the task occurs on the day modelled.
occurs_today(task) ==
    /\ task.type = "weekly" => task.day_of_week = TodayWeekday
    /\ task.type = "monthly" => task.day = TodayDay

\* The wall clock moves on by one tick; the pass that is due is at most
\* MaxLatency ticks late.
CalAdvance ==
    /\ cal_now < CalMaxNow
    /\ cal_running => cal_now < wake_at + MaxLatency
    /\ cal_now' = cal_now + 1
    /\ cal_op' = "advance"
    /\ UNCHANGED <<cal_task, cal_running, started_at, wake_at, fired, nonCal>>

\* start(): the loop thread begins with a pass.
CalStart ==
    /\ ~cal_running /\ started_at = NotStarted
    /\ cal_running' = TRUE
    /\ started_at' = cal_now
    /\ wake_at' = cal_now
    /\ cal_op' = "start"
    /\ UNCHANGED <<cal_now, cal_task, fired, nonCal>>

\* stop(): the loop thread ends, no sleep is pending any more.
CalStop ==
    /\ cal_running
    /\ cal_running' = FALSE
    /\ wake_at' = 0
    /\ cal_op' = "stop"
    /\ UNCHANGED <<cal_now, cal_task, started_at, fired, nonCal>>

\* One pass of _scheduler_loop: _check_and_execute_tasks() reads the clock,
\* dispatches the task if _should_run_task says so, then time.sleep(1).
CalTick ==
    /\ cal_running
    /\ cal_now >= wake_at
    /\ fired' = (fired \/ should_run_calendar_task(cal_task, datetime_of(cal_now)))
    /\ wake_at' = cal_now + TicksPerSecond
    /\ cal_op' = IF should_run_calendar_task(cal_task, datetime_of(cal_now))
                 THEN "dispatch" ELSE "tick"
    /\ UNCHANGED <<cal_now, cal_task, cal_running, started_at, nonCal>>

InitDaily ==
    /\ cal_now \in CalNow0..(CalNow0 + TicksPerSecond - 1)
    /\ cal_task \in CalendarTasks
    /\ cal_running = FALSE
    /\ started_at = NotStarted
    /\ wake_at = 0
    /\ fired = FALSE
    /\ cal_op = "init"
    /\ RiskIdle /\ GateIdle /\ SizeIdle /\ CorrIdle /\ SchedIdle /\ HealIdle /\ EngIdle
    /\ DispIdle /\ SwapIdle /\ LoopIdle /\ SigIdle
    /\ StartIdle
    /\ SweepIdle
    /\ StallIdle
    /\ ShedIdle
    /\ RestartIdle

NextDaily ==
    \/ CalAdvance
    \/ CalStart
    \/ CalStop
    \/ CalTick

SpecDaily == InitDaily /\ [][NextDaily]_vars

MaxCallers == 2
MaxLoops == 3
Callers == 1..MaxCallers
\* A thread spawned by start(): about to test the while condition.
NewLoop == [state |-> "test", iterating |-> FALSE]
\* The join of stop(): the thread has ended, or the timeout of 5 s ran out.
JoinOutcomes == {"joined", "timed_out"}

\* start(): if self.running: return False
StartTest(c) ==
    /\ caller_pc[c] = "idle"
    /\ IF st_running
       THEN /\ st_op' = "start_refused"
            /\ UNCHANGED caller_pc
       ELSE /\ caller_pc' = [caller_pc EXCEPT ![c] = "start_set"]
            /\ st_op' = "start_test"
    /\ UNCHANGED <<st_running, st_thread, loops, nonStart>>

\* start(): self.running = True
StartSet(c) ==
    /\ caller_pc[c] = "start_set"
    /\ st_running' = TRUE
    /\ caller_pc' = [caller_pc EXCEPT ![c] = "start_spawn"]
    /\ st_op' = "start_set"
    /\ UNCHANGED <<st_thread, loops, nonStart>>

\* start(): self.scheduler_thread = threading.Thread(...); .start()
StartSpawn(c) ==
    /\ caller_pc[c] = "start_spawn"
    /\ Len(loops) < MaxLoops
    /\ loops' = Append([i \in DOMAIN loops |-> [loops[i] EXCEPT !.iterating = FALSE]],
                       NewLoop)
    /\ st_thread' = Len(loops) + 1
    /\ caller_pc' = [caller_pc EXCEPT ![c] = "idle"]
    /\ st_op' = "spawn"
    /\ UNCHANGED <<st_running, nonStart>>

\* stop(): if not self.running: return False; self.running = False
StopCall(c) ==
    /\ caller_pc[c] = "idle"
    /\ IF ~st_running
       THEN /\ st_op' = "stop_refused"
            /\ UNCHANGED <<st_running, caller_pc>>
       ELSE /\ st_running' = FALSE
            /\ caller_pc' = [caller_pc EXCEPT ![c] = "stop_join"]
            /\ st_op' = "stop"
    /\ UNCHANGED <<st_thread, loops, nonStart>>

\* stop(): if self.scheduler_thread: self.scheduler_thread.join(timeout=5)
StopJoin(c, outcome) ==
    /\ caller_pc[c] = "stop_join"
    /\ (st_thread # 0 /\ outcome = "joined") => loops[st_thread].state = "exited"
    /\ caller_pc' = [caller_pc EXCEPT ![c] = "idle"]
    /\ st_op' = IF st_thread = 0 THEN "joined" ELSE outcome
    /\ UNCHANGED <<st_running, st_thread, loops, nonStart>>

\* _scheduler_loop: while self.running and not self.shutdown_event.is_set()
StartLoopTest(i) ==
    /\ i \in DOMAIN loops
    /\ loops[i].state = "test"
    /\ loops' = [loops EXCEPT ![i] =
                    IF loop_continues(st_running, FALSE)
                    THEN [state |-> "pass", iterating |-> TRUE]
                    ELSE [state |-> "exited", iterating |-> FALSE]]
    /\ st_op' = IF loop_continues(st_running, FALSE) THEN "loop_pass" ELSE "loop_exit"
    /\ UNCHANGED <<st_running, st_thread, caller_pc, nonStart>>

\* _scheduler_loop: _check_and_execute_tasks(); time.sleep(1)
StartLoopPass(i) ==
    /\ i \in DOMAIN loops
    /\ loops[i].state = "pass"
    /\ loops' = [loops EXCEPT ![i].state = "test"]
    /\ st_op' = "tick"
    /\ UNCHANGED <<st_running, st_thread, caller_pc, nonStart>>

InitStart ==
    /\ st_running = FALSE
    /\ st_thread = 0
    /\ caller_pc = [c \in Callers |-> "idle"]
    /\ loops = <<>>
    /\ st_op = "init"
    /\ RiskIdle /\ GateIdle /\ SizeIdle /\ CorrIdle /\ SchedIdle /\ HealIdle /\ EngIdle
    /\ DispIdle /\ SwapIdle /\ LoopIdle /\ SigIdle /\ CalIdle
    /\ SweepIdle
    /\ StallIdle
    /\ ShedIdle
    /\ RestartIdle

NextStart ==
    \/ \E c \in Callers : StartTest(c)
    \/ \E c \in Callers : StartSet(c)
    \/ \E c \in Callers : StartSpawn(c)
    \/ \E c \in Callers : StopCall(c)
    \/ \E c \in Callers, outcome \in JoinOutcomes : StopJoin(c, outcome)
    \/ \E i \in 1..MaxLoops : StartLoopTest(i)
    \/ \E i \in 1..MaxLoops : StartLoopPass(i)

SpecStart == InitStart /\ [][NextStart]_vars

\* The loop threads that found the while condition true since the last
\* thread was spawned and have not ended.
LoopsIterating == {i \in DOMAIN loops : loops[i].iterating}

\* C31: under every interleaving of start() and stop() calls at most one
\* scheduler loop thread is alive and dispatching tasks.
C31_SingleLoop == Cardinality(LoopsIterating) <= 1

(***************************************************************************)
(* SpecSweep: _update_user_risk_state (risk_manager.py 324-388) run by the *)
(* worker thread of the portfolio sweep while validate_signal, on the loop *)
(* thread, reads the same entry of self.user_risk_state.  No lock is taken *)
(* by either, so each assignment of the update is a step of its own.       *)
(***************************************************************************)
\* What the database holds at the times the worker reads it: the user's
\* equity and the user's open positions.
DbSnapshots ==
    { [equity |-> 100, positions |-> NoPositions],
      [equity |-> 90, positions |-> TwoPositions],
      [equity |-> 80, positions |-> ThreePositions] }
\* time.time() of the updates modelled.
SweepNow == 1000

\* The entry after a whole _update_user_risk_state from a fresh entry.
UpdatedFrom(snapshot) ==
    update_user_risk_state(InitialRiskState, EmptyMap, snapshot.equity,
                           snapshot.positions, SweepNow, "none").rs

\* user = user_repo.get_user_by_id(user_id);
\* open_positions = position_repo.get_open_positions_by_user(user_id)
UpdateReadsDb(snapshot) ==
    /\ upd_pc = "idle"
    /\ upd_local' = snapshot
    /\ upd_pc' = "current_equity"
    /\ sweep_op' = "read_db"
    /\ UNCHANGED <<rs_entry, observed, nonSweep>>

\* risk_state['current_equity'] = user.equity
UpdateCurrentEquity ==
    /\ upd_pc = "current_equity"
    /\ rs_entry' = [rs_entry EXCEPT !.current_equity = upd_local.equity]
    /\ upd_pc' = "max_equity"
    /\ sweep_op' = "write_current_equity"
    /\ UNCHANGED <<upd_local, observed, nonSweep>>

\* if user.equity > risk_state['max_equity']: risk_state['max_equity'] = ...
UpdateMaxEquity ==
    /\ upd_pc = "max_equity"
    /\ rs_entry' = [rs_entry EXCEPT !.max_equity = Max(@, upd_local.equity)]
    /\ upd_pc' = "drawdown_stage"
    /\ sweep_op' = "write_max_equity"
    /\ UNCHANGED <<upd_local, observed, nonSweep>>

\* if risk_state['max_equity'] > 0: risk_state['drawdown_stage'] = ...
UpdateDrawdownStage ==
    /\ upd_pc = "drawdown_stage"
    /\ rs_entry' = [rs_entry EXCEPT !.drawdown_stage =
                       IF rs_entry.max_equity > 0
                       THEN StageOf(rs_entry.max_equity, rs_entry.current_equity) ELSE @]
    /\ upd_pc' = "open_positions"
    /\ sweep_op' = "write_drawdown_stage"
    /\ UNCHANGED <<upd_local, observed, nonSweep>>

\* risk_state['open_positions'] = {...}; _update_position_correlation(...)
UpdateOpenPositions ==
    /\ upd_pc = "open_positions"
    /\ LET open == OpenSymbols(upd_local.positions)
       IN rs_entry' = [rs_entry EXCEPT
             !.open_positions = [s \in open |-> PositionRecord(upd_local.positions[s])],
             !.position_correlation =
                 update_position_correlation(@, EmptyMap, SymbolList(open))]
    /\ upd_pc' = "last_updated"
    /\ sweep_op' = "write_open_positions"
    /\ UNCHANGED <<upd_local, observed, nonSweep>>

\* risk_state['last_updated'] = time.time()
UpdateLastUpdated ==
    /\ upd_pc = "last_updated"
    /\ rs_entry' = [rs_entry EXCEPT !.last_updated = SweepNow]
    /\ upd_pc' = "idle"
    /\ sweep_op' = "write_last_updated"
    /\ UNCHANGED <<upd_local, observed, nonSweep>>

\* validate_signal on the loop thread: risk_state = _get_user_risk_state(id)
\* (the entry is fresh, it is returned as it is) and
\* _is_trading_allowed(user, risk_state).
ValidateReadsState ==
    /\ observed' = [seen |-> TRUE, rs |-> rs_entry,
                    allowed |-> is_trading_allowed(FALSE, rs_entry)]
    /\ sweep_op' = "validate_reads"
    /\ UNCHANGED <<rs_entry, upd_pc, upd_local, nonSweep>>

InitSweep ==
    /\ rs_entry \in {UpdatedFrom(s) : s \in DbSnapshots}
    /\ upd_pc = "idle"
    /\ upd_local = [equity |-> 0]
    /\ observed = [seen |-> FALSE]
    /\ sweep_op = "init"
    /\ RiskIdle /\ GateIdle /\ SizeIdle /\ CorrIdle /\ SchedIdle /\ HealIdle /\ EngIdle
    /\ DispIdle /\ SwapIdle /\ LoopIdle /\ SigIdle /\ CalIdle /\ StartIdle
    /\ StallIdle
    /\ ShedIdle
    /\ RestartIdle

NextSweep ==
    \/ \E s \in DbSnapshots : UpdateReadsDb(s)
    \/ UpdateCurrentEquity
    \/ UpdateMaxEquity
    \/ UpdateDrawdownStage
    \/ UpdateOpenPositions
    \/ UpdateLastUpdated
    \/ ValidateReadsState

SpecSweep == InitSweep /\ [][NextSweep]_vars

\* The stage and the open positions of an entry correspond to the equities
\* it stores: the stage is the stage of the stored drawdown and the
\* positions are those the database held with the stored current equity.
Corresponds(rs) ==
    /\ rs.max_equity > 0 => rs.drawdown_stage = StageOf(rs.max_equity, rs.current_equity)
    /\ \E s \in DbSnapshots :
          /\ s.equity = rs.current_equity
          /\ DOMAIN rs.open_positions = OpenSymbols(s.positions)

\* C32: validate_signal never observes a partially updated risk state, one
\* whose drawdown stage or open positions do not correspond to the current
\* and peak equity stored at that moment.
C32_NoPartialState == observed.seen => Corresponds(observed.rs)

(***************************************************************************)
(* SpecStall: the engine strategy of the supervisor while the trading loop *)
(* is silent (self_healing.py 429-481).  The actions of SpecSwap run with  *)
(* a clock of the loop's silence; the supervisor's cycle keeps calling the *)
(* check (weak fairness), the heal follows the code's callers.             *)
(***************************************************************************)
\* if elapsed > 600
unresponsive_after == 600
\* The silence grows in steps of AgeStep seconds up to MaxAge.
AgeStep == 300
MaxAge == 900

\* The loop worker does not iterate for another AgeStep seconds.
LoopSilent ==
    /\ activity_age + AgeStep <= MaxAge
    /\ activity_age' = activity_age + AgeStep
    /\ UNCHANGED nonStall

\* The loop worker completes an iteration.
LoopActive ==
    /\ activity_age # 0
    /\ activity_age' = 0
    /\ UNCHANGED nonStall

InitStall ==
    /\ activity_age = 0
    /\ instances \in {0, 1}
    /\ sh_trading_engine = instances
    /\ has_trading_engine = (instances # 0)
    /\ engine_strategy = (instances # 0)
    /\ app_trading_engine \in {NoApp, instances}
    /\ installed = instances
    /\ swap_op = SwapOp("init", instances, "none")
    /\ RiskIdle /\ GateIdle /\ SizeIdle /\ CorrIdle /\ SchedIdle /\ HealIdle /\ EngIdle
    /\ DispIdle /\ LoopIdle /\ SigIdle /\ CalIdle /\ StartIdle /\ SweepIdle
    /\ ShedIdle
    /\ RestartIdle

NextStall ==
    \/ LoopSilent
    \/ LoopActive
    \/ \E c \in 0..MaxInstances : UpdateComponent(c)
    \/ CreateEngine
    \/ CheckTradingEngine
    \/ \E created \in BOOLEAN : HealTradingEngine(created)

SpecStall == InitStall /\ [][NextStall]_vars /\ WF_vars(CheckTradingEngine)

\* The loop has been silent for more than ten minutes with the engine
\* strategy registered.
LoopUnresponsive ==
    activity_age > unresponsive_after /\ engine_strategy /\ has_trading_engine

\* The heal replaced the engine it examined: a new instance is installed.
EngineReplaced == swap_op.op = "heal" /\ swap_op.result = "True"

\* C33: when the trading loop records no activity for more than 10 minutes
\* while the supervisor runs and the engine strategy is registered, the
\* liveness check eventually fails and the heal installs a new instance.
C33_StalledLoopIsReplaced == LoopUnresponsive ~> (EngineReplaced \/ ~LoopUnresponsive)


(***************************************************************************)
(* SpecShed: the system_health strategy of the supervisor                  *)
(* (self_healing.py 171-214, 261-313) and the scheduler's registry         *)
(* (scheduler.py 340-374).  The supervisor's loop runs a healing cycle     *)
(* every healing_interval (weak fairness); the machine's load changes as   *)
(* it will.  No operator acts on the scheduler.                            *)
(***************************************************************************)
\* The registries the scheduler holds when the supervisor starts: every task
\* critical or not, running or paused by an operator.
ShedTasks ==
    {new_task("f", ShortInterval, c) : c \in BOOLEAN}
    \cup {[new_task("f", ShortInterval, FALSE) EXCEPT !.is_paused = TRUE]}
ShedRegistries == [TaskIds -> ShedTasks]

\* _reduce_system_load: the scheduler of self.app, if it has one, pauses the
\* non-critical tasks; nothing else in it touches the scheduler.
reduce_system_load(has_scheduler, registry) ==
    IF has_scheduler THEN pause_non_critical(registry) ELSE registry

\* CPU, memory or disk usage crosses 90%, one way or the other.
ResourcesChange ==
    /\ resources_ok' = ~resources_ok
    /\ shed_op' = "resources"
    /\ UNCHANGED <<tasks, app_scheduler, shed_attempts, shed>>
    /\ UNCHANGED <<running, sched_now, dispatched, sched_op, sched_call, nonShed>>

\* _run_healing_cycle at the entry system_health: a healthy check resets the
\* counter; an unhealthy one goes to _attempt_component_recovery, whose heal
\* is _reduce_system_load (healed: whether the cache clearing and the log
\* clean-up that follow the pausing went through).
HealingCycle(healed) ==
    /\ IF resources_ok
       THEN /\ shed_attempts' = 0
            /\ shed_op' = "healthy"
            /\ UNCHANGED <<tasks, shed>>
       ELSE /\ shed_attempts + 1 <= max_attempts("system_health") + HealSlack
            /\ IF within_max_attempts(shed_attempts + 1, "system_health")
               THEN /\ tasks' = reduce_system_load(app_scheduler, tasks)
                    /\ shed' = shed \cup {t \in DOMAIN tasks :
                                            ~tasks[t].is_paused /\ tasks'[t].is_paused}
                    /\ shed_attempts' = IF healed
                                        THEN after_successful_heal(shed_attempts + 1)
                                        ELSE shed_attempts + 1
                    /\ shed_op' = IF healed THEN "healed" ELSE "heal_failed"
               ELSE /\ shed_attempts' = shed_attempts + 1
                    /\ shed_op' = "persistent_failure"
                    /\ UNCHANGED <<tasks, shed>>
    /\ UNCHANGED <<resources_ok, app_scheduler>>
    /\ UNCHANGED <<running, sched_now, dispatched, sched_op, sched_call, nonShed>>

InitShed ==
    /\ running = TRUE
    /\ tasks \in ShedRegistries
    /\ sched_now = SchedNow0
    /\ dispatched = {}
    /\ sched_op = "init"
    /\ sched_call = NoCall
    /\ resources_ok = TRUE
    /\ app_scheduler \in BOOLEAN
    /\ shed_attempts = 0
    /\ shed = {}
    /\ shed_op = "init"
    /\ RiskIdle /\ GateIdle /\ SizeIdle /\ CorrIdle /\ HealIdle /\ EngIdle /\ DispIdle
    /\ SwapIdle /\ LoopIdle /\ SigIdle /\ CalIdle /\ StartIdle /\ SweepIdle /\ StallIdle
    /\ RestartIdle

NextShed ==
    \/ ResourcesChange
    \/ \E healed \in BOOLEAN : HealingCycle(healed)

SpecShed ==
    InitShed /\ [][NextShed]_vars /\ WF_vars(\E healed \in BOOLEAN : HealingCycle(healed))

\* C38: load shedding is undone: every task that the heal of system_health
\* has paused is eventually resumed once the system-resource check reports
\* healthy again, with no operator acting.
C38_ShedTasksResumed ==
    \A t \in TaskIds :
        (t \in shed /\ resources_ok /\ shed_op = "healthy") ~> ~tasks[t].is_paused


(***************************************************************************)
(* SpecRestart: the loop workers of the engine across stop() and start()   *)
(* (engine.py 299-354, 403-437).  A worker is a thread that runs           *)
(* _trading_loop; born is the number of stop() calls that had cleared      *)
(* self.running when it began.                                             *)
(***************************************************************************)
MaxLoopWorkers == 2
MaxStops == 2

LoopWorker(pc, born) == [pc |-> pc, born |-> born]

\* A thread begins to run _trading_loop(engine).
RestartLoopEnter ==
    /\ Len(re_workers) < MaxLoopWorkers
    /\ re_workers' = Append(re_workers, LoopWorker("while", re_stops))
    /\ re_op' = "entered"
    /\ UNCHANGED <<re_running, re_thread, re_stops, nonRestart>>

\* start(engine), under self.lock: running is set, and
\* Thread(target=self._trading_loop) is created and started.
RestartStart ==
    /\ IF re_running
       THEN /\ re_op' = "start_False"
            /\ UNCHANGED <<re_running, re_thread, re_workers>>
       ELSE /\ re_running' = TRUE
            /\ IF has_attribute("_trading_loop") /\ Len(re_workers) < MaxLoopWorkers
               THEN /\ re_workers' = Append(re_workers, LoopWorker("while", re_stops))
                    /\ re_thread' = Len(re_workers) + 1
                    /\ re_op' = "start_True"
               ELSE /\ re_op' = "start_AttributeError"
                    /\ UNCHANGED <<re_thread, re_workers>>
    /\ UNCHANGED <<re_stops, nonRestart>>

\* stop(engine), under self.lock: running is cleared; the thread that
\* self.trading_thread refers to is joined for 30 seconds at most (it leaves
\* the loop in that time only from its while test); then the exchange
\* connections are closed.
RestartStop(outcome) ==
    /\ IF ~re_running
       THEN /\ re_op' = "stop_False"
            /\ UNCHANGED <<re_running, re_workers, re_stops>>
       ELSE /\ re_stops < MaxStops
            /\ re_running' = FALSE
            /\ re_stops' = re_stops + 1
            /\ re_workers' =
                  IF re_thread # 0 /\ outcome = "joined" /\ re_workers[re_thread].pc = "while"
                  THEN [re_workers EXCEPT ![re_thread].pc = "exited"]
                  ELSE re_workers
            /\ re_op' = IF has_attribute("_close_exchange_connections")
                        THEN "stop_True" ELSE "stop_AttributeError"
    /\ UNCHANGED <<re_thread, nonRestart>>

\* while self.running and not self.shutdown_event.is_set(), in worker i.
RestartLoopTest(i) ==
    /\ re_workers[i].pc = "while"
    /\ re_workers' = [re_workers EXCEPT ![i].pc =
                         IF loop_continues(re_running, FALSE) THEN "iterating" ELSE "exited"]
    /\ re_op' = "test"
    /\ UNCHANGED <<re_running, re_thread, re_stops, nonRestart>>

\* Worker i ends an iteration: the body, or the handler and its backoff sleep
\* of up to 60 seconds.
RestartLoopPass(i) ==
    /\ re_workers[i].pc = "iterating"
    /\ re_workers' = [re_workers EXCEPT ![i].pc = "while"]
    /\ re_op' = "pass"
    /\ UNCHANGED <<re_running, re_thread, re_stops, nonRestart>>

InitRestart ==
    /\ re_running = FALSE
    /\ re_thread = 0
    /\ re_workers = <<>>
    /\ re_stops = 0
    /\ re_op = "init"
    /\ RiskIdle /\ GateIdle /\ SizeIdle /\ CorrIdle /\ SchedIdle /\ HealIdle /\ EngIdle
    /\ DispIdle /\ SwapIdle /\ LoopIdle /\ SigIdle /\ CalIdle /\ StartIdle /\ SweepIdle
    /\ StallIdle /\ ShedIdle

NextRestart ==
    \/ RestartLoopEnter
    \/ RestartStart
    \/ \E outcome \in JoinOutcomes : RestartStop(outcome)
    \/ \E i \in 1..MaxLoopWorkers : i <= Len(re_workers) /\ RestartLoopTest(i)
    \/ \E i \in 1..MaxLoopWorkers : i <= Len(re_workers) /\ RestartLoopPass(i)

SpecRestart == InitRestart /\ [][NextRestart]_vars

\* C40: after stop() and a new start(), a worker that had not left the loop
\* when stop() ended never goes on iterating beside the worker of the new
\* start(): only a worker begun since the last stop() passes the while test.
C40_NoRevivedWorker ==
    [][\A i \in 1..Len(re_workers) :
          (re_workers[i].pc = "while" /\ re_workers'[i].pc = "iterating") =>
              re_workers[i].born = re_stops
      ]_vars

====
